---- MODULE Spec2Model ----
(***************************************************************************)
(* LED-Studio: the FrameManager playback controller (FrameManager class)   *)
(* and the SequenceHandler that feeds it (loadFrames, reprocessFrames,     *)
(* getOutputDimensions, exportTwinCAT), as state machines; and the pixel   *)
(* encoding of ImageProcessor (rgbToDword, applyBrightness) as functions.  *)
(*                                                                         *)
(* JavaScript is single threaded: every action below is one macrotask      *)
(* (a UI event handler, an interval-timer callback, or the continuation of *)
(* loadFrames after an image has been decoded) run to completion.          *)
(***************************************************************************)
EXTENDS Integers, Sequences, FiniteSets, TLC

\* ------------------------------------------------------------------ bounds
MaxFrames == 3
MaxTimerId == 2
MaxTrail == 6
MaxFps == 2
MaxWidth == 2
MaxHeight == 1
MaxFiles == 2
MaxLoads == 2
ChannelSteps == 3
BrightnessSteps == 8
MaxBrightness == 200
MaxSourceWidth == 11
MaxSourceHeight == 2
MaxTargetWidth == 15
MaxTargetHeight == 2
MaxOffset == 1
MaxFrameIndex == 1001
MaxWidthBlocks == 4
MaxHeightBlocks == 2
MaxReportFrames == 6
MaxDay == 1
MaxMs == 1
MaxSeed == 1

\* ------------------------------------------------------- program constants
DefaultFps == 30
MsPerSecond == 1000
\* Number.NaN as an index value: a number that is no integer index (indices
\* and the arguments of goToFrame are >= -1 here). Every comparison with it
\* is false and arithmetic on it yields it again.
NaN == -2
\* animationTimer = null
NoTimer == 0
\* largest value of an element of ImageData.data (a Uint8ClampedArray)
MaxChannel == 255
\* the brightness at which scale = brightness / 100 is 1
FullBrightness == 100

LoopModes == {"loop", "once", "pingpong"}
FpsValues == {DefaultFps} \cup (1..MaxFps)

VARIABLES
    fm,          \* the FrameManager object: its fields
    timers,      \* the interval timers of the window that are active
    nextTimer,   \* the handle the next setInterval call returns
    emitted,     \* the emit() calls made by the last operation, per event
    lastOp,      \* name of the last operation that ran
    lastArg,     \* its arguments, as a tuple
    run,         \* history: the ticks seen since the last effective play()
    sh,          \* the SequenceHandler object: its fields
    ui,          \* the form controls the SequenceHandler reads
    aliased,     \* fm.frames and sh.frames are the same array object
    loads,       \* the loadFrames calls waiting for an image to decode
    started,     \* number of loadFrames calls made so far
    exported,    \* what the last exportTwinCAT call declared and emitted
    pixel,       \* a pixel object as convertToPixelArray built it last
    output,      \* the pixel object applyBrightness made of it since
    rs,          \* a reprocessFrames call on one frame: its inputs and result
    ex,          \* what the last call of an AnimationExporter helper returned
    em,          \* the frames kept for export and the last two emissions
    currentTab,  \* LEDAnimationConverter.currentTab
    placed       \* history: the operations that last wrote index and direction

appVars == <<sh, ui, aliased, loads, started>>
pixelVars == <<pixel, output>>
pageVars == <<em, currentTab>>
vars == <<fm, timers, nextTimer, emitted, lastOp, lastArg, run,
          sh, ui, aliased, loads, started, exported, pixel, output, rs, ex, em, currentTab,
          placed>>

\* ------------------------------------------------------------------ frames
\* A frame object as loadFrames builds it: index, filename (the batch it
\* came from stands for the name), image size, and pixelData.
Frame(batch, i, w, h) ==
    [index |-> i, batch |-> batch, image |-> [width |-> w, height |-> h],
     pixelData |-> [width |-> w, height |-> h, pixels |-> w * h]]

\* A sequence of n frames handed to setFrames by a client.
FrameList(batch, n) == [k \in 1..n |-> Frame(batch, k - 1, 1, 1)]

\* ------------------------------------------------------------ FrameManager
NoEvents == [playStateChange |-> <<>>, frameChange |-> <<>>]

\* constructor()
NewFrameManager ==
    [frames |-> <<>>, currentFrame |-> 0, fps |-> DefaultFps,
     loopMode |-> "loop", playing |-> FALSE, direction |-> 1,
     animationTimer |-> NoTimer, eventListeners |-> TRUE]

\* The controller together with the timer table it acts on and the
\* notifications it has emitted so far in the running operation.
Ctx == [fm |-> fm, timers |-> timers, nextTimer |-> nextTimer, emitted |-> NoEvents]

\* emit(event, data)
emit(c, event, data) == [c EXCEPT !.emitted[event] = Append(@, data)]

\* 1000 / fps, kept exact as numerator and denominator
interval(fps) == <<MsPerSecond, fps>>

\* setInterval(callback, interval): a new active timer with a fresh handle
setInterval(c, ms) ==
    [c EXCEPT !.timers = @ \cup {[id |-> c.nextTimer, interval |-> ms]},
              !.nextTimer = @ + 1,
              !.fm.animationTimer = c.nextTimer]

\* clearInterval(handle)
clearInterval(c, handle) ==
    [c EXCEPT !.timers = {t \in @ : t.id # handle}]

\* play() without the check of the playing flag
playReturnsEarlyIfEmpty(c) == Len(c.fm.frames) = 0

\* play() that also refuses to start on the last frame of a 'once' playback
playReturnsEarlyAtEnd(c) ==
    \/ Len(c.fm.frames) = 0
    \/ c.fm.playing
    \/ (c.fm.loopMode = "once" /\ c.fm.currentFrame = Len(c.fm.frames) - 1)

\* play(): the two early returns
playReturnsEarly(c) == Len(c.fm.frames) = 0 \/ c.fm.playing

\* play() that starts the timer without telling the listeners
playSilently(c) ==
    IF playReturnsEarly(c) THEN c
    ELSE LET c1 == [c EXCEPT !.fm.playing = TRUE]
         IN  setInterval(c1, interval(c1.fm.fps))

play(c) ==
    IF playReturnsEarly(c) THEN c
    ELSE LET c1 == [c EXCEPT !.fm.playing = TRUE]
             c2 == emit(c1, "playStateChange", TRUE)
         IN  setInterval(c2, interval(c2.fm.fps))

\* stop() without the check of the playing flag
stopUnguarded(c) ==
    LET c1 == [c EXCEPT !.fm.playing = FALSE]
        c2 == emit(c1, "playStateChange", FALSE)
    IN  IF c2.fm.animationTimer # NoTimer
        THEN [clearInterval(c2, c2.fm.animationTimer)
                EXCEPT !.fm.animationTimer = NoTimer]
        ELSE c2

\* stop() that clears the flag and leaves the interval running
stopLeavesTimer(c) ==
    IF ~c.fm.playing THEN c
    ELSE emit([c EXCEPT !.fm.playing = FALSE], "playStateChange", FALSE)

stop(c) ==
    IF ~c.fm.playing THEN c
    ELSE LET c1 == [c EXCEPT !.fm.playing = FALSE]
             c2 == emit(c1, "playStateChange", FALSE)
         IN  IF c2.fm.animationTimer # NoTimer
             THEN [clearInterval(c2, c2.fm.animationTimer)
                     EXCEPT !.fm.animationTimer = NoTimer]
             ELSE c2

\* stop() while a playStateChange listener is registered that calls play()
\* when it is told false: emit runs the listener before stop() goes on
stopWithReplayingListener(c) ==
    IF ~c.fm.playing THEN c
    ELSE LET c1 == [c EXCEPT !.fm.playing = FALSE]
             c2 == play(emit(c1, "playStateChange", FALSE))
         IN  IF c2.fm.animationTimer # NoTimer
             THEN [clearInterval(c2, c2.fm.animationTimer)
                     EXCEPT !.fm.animationTimer = NoTimer]
             ELSE c2

\* setFrames that leaves the index where it was
setFramesKeepIndex(c, frames) == stop([c EXCEPT !.fm.frames = frames])

\* setFrames that forgets to stop
setFramesNoStop(c, frames) == [c EXCEPT !.fm.frames = frames, !.fm.currentFrame = 0]

setFrames(c, frames) ==
    stop([c EXCEPT !.fm.frames = frames, !.fm.currentFrame = 0])

\* setFPS that leaves the running timer alone
setFPSNoRestart(c, fps) == [c EXCEPT !.fm.fps = fps]

setFPS(c, fps) ==
    LET c1 == [c EXCEPT !.fm.fps = fps]
    IN  IF c1.fm.playing THEN play(stop(c1)) ELSE c1

\* setLoopMode that leaves the direction as it was
setLoopModeKeepDirection(c, mode) == [c EXCEPT !.fm.loopMode = mode]

setLoopMode(c, mode) == [c EXCEPT !.fm.loopMode = mode, !.fm.direction = 1]

\* a % b of JavaScript for a >= 0 or NaN, b >= 0
JsMod(a, b) == IF a = NaN \/ b = 0 THEN NaN ELSE a % b
\* a + k with NaN absorbing
JsAdd(a, k) == IF a = NaN THEN NaN ELSE a + k
\* a < b, a >= b: false when an operand is NaN
JsLt(a, b) == a # NaN /\ b # NaN /\ a < b
JsGe(a, b) == a # NaN /\ b # NaN /\ a >= b

\* 'once' that stops in the tick that reaches the last frame
advanceOnceStopOnArrival(c) ==
    IF JsLt(c.fm.currentFrame, Len(c.fm.frames) - 1)
    THEN LET c1 == [c EXCEPT !.fm.currentFrame = JsAdd(@, 1)]
         IN  IF c1.fm.currentFrame = Len(c.fm.frames) - 1 THEN stop(c1) ELSE c1
    ELSE stop(c)

\* 'once' that stays on the last frame without stopping
advanceOnceHoldAtEnd(c) ==
    IF JsLt(c.fm.currentFrame, Len(c.fm.frames) - 1)
    THEN [c EXCEPT !.fm.currentFrame = JsAdd(@, 1)]
    ELSE c

\* the 'once' case of advanceFrame
advanceOnce(c) ==
    IF JsLt(c.fm.currentFrame, Len(c.fm.frames) - 1)
    THEN [c EXCEPT !.fm.currentFrame = JsAdd(@, 1)]
    ELSE stop(c)

\* 'pingpong' that clamps at the last frame without turning round
advancePingpongNoTurn(c) ==
    LET moved == c.fm.currentFrame + c.fm.direction
        last == Len(c.fm.frames) - 1
    IN  IF moved >= last
        THEN [c EXCEPT !.fm.currentFrame = last]
        ELSE IF moved <= 0
        THEN [c EXCEPT !.fm.currentFrame = 0, !.fm.direction = 1]
        ELSE [c EXCEPT !.fm.currentFrame = moved]

\* 'pingpong' that clamps at the first frame without turning round
advancePingpongNoTurnAtZero(c) ==
    LET moved == IF c.fm.currentFrame = NaN THEN NaN
                 ELSE c.fm.currentFrame + c.fm.direction
        last == Len(c.fm.frames) - 1
    IN  IF moved # NaN /\ moved >= last
        THEN [c EXCEPT !.fm.currentFrame = last, !.fm.direction = -1]
        ELSE IF moved # NaN /\ moved <= 0
        THEN [c EXCEPT !.fm.currentFrame = 0]
        ELSE [c EXCEPT !.fm.currentFrame = moved]

\* the 'pingpong' case of advanceFrame
advancePingpong(c) ==
    LET moved == IF c.fm.currentFrame = NaN THEN NaN
                 ELSE c.fm.currentFrame + c.fm.direction
        last == Len(c.fm.frames) - 1
    IN  IF moved # NaN /\ moved >= last
        THEN [c EXCEPT !.fm.currentFrame = last, !.fm.direction = -1]
        ELSE IF moved # NaN /\ moved <= 0
        THEN [c EXCEPT !.fm.currentFrame = 0, !.fm.direction = 1]
        ELSE [c EXCEPT !.fm.currentFrame = moved]

\* 'loop' that counts on past the last frame
advanceLoopNoWrap(c) == [c EXCEPT !.fm.currentFrame = JsAdd(@, 1)]

\* the 'loop' case of advanceFrame
advanceLoop(c) ==
    [c EXCEPT !.fm.currentFrame = JsMod(JsAdd(@, 1), Len(c.fm.frames))]

\* advanceFrame that notifies before it moves
advanceFrameEmitFirst(c) ==
    LET c1 == emit(c, "frameChange", c.fm.currentFrame)
    IN  CASE c.fm.loopMode = "loop" -> advanceLoop(c1)
          [] c.fm.loopMode = "once" -> advanceOnce(c1)
          [] c.fm.loopMode = "pingpong" -> advancePingpong(c1)
          [] OTHER -> c1

advanceFrame(c) ==
    LET c1 == CASE c.fm.loopMode = "loop" -> advanceLoop(c)
                [] c.fm.loopMode = "once" -> advanceOnce(c)
                [] c.fm.loopMode = "pingpong" -> advancePingpong(c)
                [] OTHER -> c
    IN  emit(c1, "frameChange", c1.fm.currentFrame)

\* a range check that lets the index one past the end through
indexRejectedAbove(c, index) == JsLt(index, 0) \/ JsLt(Len(c.fm.frames), index)

\* goToFrame(index): the range check
indexRejected(c, index) == JsLt(index, 0) \/ JsGe(index, Len(c.fm.frames))

\* goToFrame that pauses the playback it interrupts
goToFramePausing(c, index) ==
    IF indexRejected(c, index) THEN c
    ELSE stop(emit([c EXCEPT !.fm.currentFrame = index], "frameChange", index))

goToFrame(c, index) ==
    IF indexRejected(c, index) THEN c
    ELSE emit([c EXCEPT !.fm.currentFrame = index], "frameChange", index)

nextFrame(c) ==
    goToFrame(c, JsMod(JsAdd(c.fm.currentFrame, 1), Len(c.fm.frames)))

\* previousFrame that wraps to the first frame instead of the last
previousFrameWrapToFirst(c) ==
    LET prevIndex == JsAdd(c.fm.currentFrame, -1)
    IN  goToFrame(c, IF JsLt(prevIndex, 0) THEN 0 ELSE prevIndex)

previousFrame(c) ==
    LET prevIndex == JsAdd(c.fm.currentFrame, -1)
        wrappedIndex == IF JsLt(prevIndex, 0) THEN Len(c.fm.frames) - 1 ELSE prevIndex
    IN  goToFrame(c, wrappedIndex)

\* k consecutive calls of nextFrame()
RECURSIVE nextFrameTimes(_, _)
nextFrameTimes(c, k) == IF k = 0 THEN c ELSE nextFrameTimes(nextFrame(c), k - 1)

destroy(c) ==
    [stop(c) EXCEPT !.fm.frames = <<>>, !.fm.eventListeners = FALSE]

\* ------------------------------------------------------------ the page
\* the tabs of the page: currentTab starts as 'single'
TabNames == {"single", "sequence"}

\* switchTab that leaves the playback running
switchTabKeepPlaying(c, tabName) == c

\* switchTab(tabName, tabs, tabContents): what it does to the controller
switchTab(c, tabName) == IF tabName # "sequence" THEN stop(c) ELSE c

\* SequenceHandler.togglePlayback()
togglePlayback(c) == IF c.fm.playing THEN stop(c) ELSE play(c)

\* --------------------------------------------------------- SequenceHandler
\* a field the constructor does not set (frameWidth, frameHeight)
Undefined == 0

CropModes == {"crop-top", "crop-bottom", "crop-center", "stretch", "fit"}
Widths == 1..MaxWidth
Heights == 1..MaxHeight

\* constructor(imageProcessor, frameManager, animationExporter)
NewSequenceHandler ==
    [frames |-> <<>>, frameWidth |-> Undefined, frameHeight |-> Undefined]

\* initializeElements(): the checkbox and the two number inputs. The values
\* the inputs carry in the page are not part of the sources. The crop mode
\* and the crop offsets select pixel contents only, never a size: they are
\* inputs of the operations below and are not kept in this state.
InitialControls ==
    [useCustomResolution : {FALSE}, outputWidth : Widths, outputHeight : Heights]

NoExport ==
    [width |-> 0, height |-> 0, nPixelsPerFrame |-> 0, arrays |-> <<>>,
     bodies |-> <<>>, declared |-> <<>>,
     pointers |-> [bounds |-> <<0, -1>>, entries |-> <<>>]]

\* i.toString(): the decimal digits of i >= 0
DecDigits == <<"0", "1", "2", "3", "4", "5", "6", "7", "8", "9">>
RECURSIVE toString10(_)
toString10(i) ==
    IF i < 10 THEN <<DecDigits[i + 1]>>
    ELSE toString10(i \div 10) \o <<DecDigits[(i % 10) + 1]>>

\* str.padStart(targetLength, padString) with a one-character padString
RECURSIVE padStart(_, _, _)
padStart(str, targetLength, padString) ==
    IF Len(str) >= targetLength THEN str
    ELSE padStart(<<padString>> \o str, targetLength, padString)

\* i.toString().padStart(3, '0')
frameIndexSuffix(i) == padStart(toString10(i), 3, "0")

\* the identifier aFrame_${name}_${suffix} of frame i
frameIdentifier(i) == [prefix |-> "aFrame", suffix |-> frameIndexSuffix(i)]

\* the declarations of the per-frame arrays, in the order of the first loop
frameDeclarations(n) == [k \in 1..n |-> frameIdentifier(k - 1)]

\* a pointer loop that counts from 1
framePointersFromOne(n) ==
    [bounds |-> <<0, n - 1>>, entries |-> [k \in 1..n |-> frameIdentifier(k)]]

\* the pointer array: ARRAY[0..n-1] and one ADR(identifier) per frame
framePointers(n) ==
    [bounds |-> <<0, n - 1>>, entries |-> [k \in 1..n |-> frameIdentifier(k - 1)]]

\* the body of a frame array from element j on: a token per element
\* ("16#" stands for the DWORD literal), a comma unless it is the last, a
\* line break when (j + 1) % width === 0 (never, when width is 0)
RECURSIVE arrayBodyFrom(_, _, _)
arrayBodyFrom(j, length, width) ==
    IF j >= length THEN <<>>
    ELSE <<"16#">>
         \o (IF j < length - 1 THEN <<",">> ELSE <<>>)
         \o (IF width # 0 /\ (j + 1) % width = 0 THEN <<"\n">> ELSE <<>>)
         \o arrayBodyFrom(j + 1, length, width)

arrayBody(length, width) == arrayBodyFrom(0, length, width)

\* ImageProcessor.processImage(image): the canvas takes the size of the image
processImage(image) ==
    [width |-> image.width, height |-> image.height,
     pixels |-> image.width * image.height]

\* ImageProcessor.processImageWithResize(image, targetWidth, targetHeight, mode):
\* in every mode the canvas read back is targetWidth x targetHeight
processImageWithResize(image, targetWidth, targetHeight, mode) ==
    [width |-> targetWidth, height |-> targetHeight,
     pixels |-> targetWidth * targetHeight]

\* the frame arrays after sh.frames has been mutated in place: the
\* controller sees the mutation when it holds the same array
WithFrames(c, h, frames) ==
    [c |-> IF aliased THEN [c EXCEPT !.fm.frames = frames] ELSE c,
     h |-> [h EXCEPT !.frames = frames]]

\* loadFrames(files) up to its first await
loadFramesBegin(h) == [h EXCEPT !.frames = <<>>]

\* loadFrames: the dimension check of frame i
dimensionMismatch(h, i, image) ==
    /\ i # 0
    /\ (image.width # h.frameWidth \/ image.height # h.frameHeight)

\* loadFrames: the body of the loop for frame i, after the check passed
loadFramesPush(h, batch, i, image) ==
    LET h1 == IF i = 0
              THEN [h EXCEPT !.frameWidth = image.width, !.frameHeight = image.height]
              ELSE h
    IN  [h1 EXCEPT !.frames = Append(@, [index |-> i, batch |-> batch, image |-> image,
                                        pixelData |-> processImage(image)])]

\* reprocessFrames(): the guard
reprocessSkipped(h, u) == ~u.useCustomResolution \/ Len(h.frames) = 0

\* reprocessFrames(), with this.cropMode.value = mode
reprocessFrames(h, u, mode) ==
    IF reprocessSkipped(h, u) THEN h
    ELSE [h EXCEPT
            !.frames = [k \in 1..Len(h.frames) |->
                [h.frames[k] EXCEPT !.pixelData =
                    processImageWithResize(h.frames[k].image, u.outputWidth,
                                           u.outputHeight, mode)]],
            !.frameWidth = u.outputWidth,
            !.frameHeight = u.outputHeight]

\* getOutputDimensions()
getOutputDimensions(h, u) ==
    IF u.useCustomResolution
    THEN [width |-> u.outputWidth, height |-> u.outputHeight]
    ELSE [width |-> h.frameWidth, height |-> h.frameHeight]

\* AnimationExporter.exportTwinCAT(frames, options): the declared
\* nPixelsPerFrame and the number of elements of each per-frame array
exportTwinCAT(frames, options) ==
    [width |-> options.width, height |-> options.height,
     nPixelsPerFrame |-> options.width * options.height,
     arrays |-> [k \in 1..Len(frames) |-> frames[k].pixelData.pixels],
     bodies |-> [k \in 1..Len(frames) |->
                    arrayBody(frames[k].pixelData.pixels, options.width)],
     declared |-> frameDeclarations(Len(frames)),
     pointers |-> framePointers(Len(frames))]

\* exportTcGVL(frames, options): the declarations and the pointer array
exportTcGVL(frames, options) ==
    [declared |-> frameDeclarations(Len(frames)),
     pointers |-> framePointers(Len(frames))]

\* ---------------------------------------------------------- ImageProcessor
\* channel values of the images fed in: both ends of 0..255 and the values
\* between them at equal distances
ChannelSamples == {(k * MaxChannel) \div ChannelSteps : k \in 0..ChannelSteps}
AlphaSamples == {0, MaxChannel}
\* the least brightness that scales channel 255 to 2^15, the value whose
\* shift by 16 reaches bit 31
SignBitBrightness == (2^15 * FullBrightness) \div MaxChannel

\* parseInt(brightnessSlider.value): 100, values from 0 to MaxBrightness,
\* and the least one that sets bit 31 of a packed word
BrightnessValues ==
    {FullBrightness, SignBitBrightness} \cup
    {(k * MaxBrightness) \div BrightnessSteps : k \in 0..BrightnessSteps}

\* x << k for 0 <= x < 2^31 and 1 <= k <= 30: the low 32 bits of x * 2^k
\* read as a signed 32-bit integer (bit 31 - k of x becomes the sign)
ShiftLeft(x, k) ==
    LET low == x % 2^(31 - k)
        sign == (x \div 2^(31 - k)) % 2
    IN  low * 2^k - sign * 2^30 - sign * 2^30

\* x | y for x, y >= 0, bit by bit
RECURSIVE BitOrNat(_, _)
BitOrNat(x, y) ==
    IF x = 0 THEN y
    ELSE IF y = 0 THEN x
    ELSE (IF x % 2 = 1 \/ y % 2 = 1 THEN 1 ELSE 0) + 2 * BitOrNat(x \div 2, y \div 2)

\* the low 31 bits of a signed 32-bit integer
Low31(x) == IF x < 0 THEN (x + 2^30) + 2^30 ELSE x

\* x | y on signed 32-bit integers: the sign bit is set if either has it
BitOr(x, y) ==
    LET low == BitOrNat(Low31(x), Low31(y))
    IN  IF x < 0 \/ y < 0 THEN (low - 2^30) - 2^30 ELSE low

\* packing with red and blue exchanged (0x00RRGGBB)
rgbToDwordRedHigh(r, g, b) == BitOr(BitOr(ShiftLeft(r, 16), ShiftLeft(g, 8)), b)

\* rgbToDword(r, g, b): (b << 16) | (g << 8) | r
rgbToDword(r, g, b) == BitOr(BitOr(ShiftLeft(b, 16), ShiftLeft(g, 8)), r)

\* Number.prototype.toString(16): lowercase digits, most significant first,
\* and a minus sign before the digits of the magnitude of a negative number
HexDigits ==
    <<"0", "1", "2", "3", "4", "5", "6", "7", "8", "9", "a", "b", "c", "d", "e", "f">>
RECURSIVE toString16Nat(_)
toString16Nat(x) ==
    IF x < 16 THEN <<HexDigits[x + 1]>>
    ELSE toString16Nat(x \div 16) \o <<HexDigits[(x % 16) + 1]>>

toString16(x) ==
    IF x >= 0 THEN toString16Nat(x)
    ELSE LET last == (16 - (x % 16)) % 16
             rest == 0 - ((x + last) \div 16)
         IN  <<"-">> \o (IF rest = 0 THEN <<>> ELSE toString16Nat(rest))
                    \o <<HexDigits[last + 1]>>

\* String.prototype.toUpperCase on the characters toString(16) produces
UpperOf(ch) ==
    CASE ch = "a" -> "A" [] ch = "b" -> "B" [] ch = "c" -> "C"
      [] ch = "d" -> "D" [] ch = "e" -> "E" [] ch = "f" -> "F"
      [] OTHER -> ch
toUpperCase(str) == [i \in 1..Len(str) |-> UpperOf(str[i])]

\* dword.toString(16).padStart(8, '0').toUpperCase()
dwordDigits(dword) == toUpperCase(padStart(toString16(dword), 8, "0"))

\* the tokens of the packed words of a list of pixels, in the order of the
\* loop over the list: 16#XXXXXXXX in structured text, 0xXXXXXXXX in JSON
twinCATTokens(pixels) ==
    [j \in 1..Len(pixels) |-> <<"1", "6", "#">> \o dwordDigits(pixels[j].dword)]
jsonTokens(pixels) ==
    [j \in 1..Len(pixels) |-> <<"0", "x">> \o dwordDigits(pixels[j].dword)]

\* the pixel object convertToPixelArray builds from four bytes of ImageData
convertToPixel(r, g, b, a) ==
    [r |-> r, g |-> g, b |-> b, a |-> a, dword |-> rgbToDword(r, g, b)]

\* a pixel of a canvas nothing has been drawn on
BlankPixel == convertToPixel(0, 0, 0, 0)

\* The pairs <<brightness, v>>, brightness in 0..400 and v in 0..255, for
\* which the double v * (brightness / 100) lies just below the half that
\* v * brightness / 100 exactly is: Math.round takes these down, not up.
RoundsBelowHalf ==
    {<<29, 50>>, <<35, 90>>, <<35, 170>>, <<41, 150>>, <<57, 50>>,
     <<57, 150>>, <<58, 25>>, <<69, 150>>, <<70, 45>>, <<70, 85>>,
     <<70, 165>>, <<70, 175>>, <<82, 75>>, <<113, 50>>, <<113, 150>>,
     <<114, 25>>, <<114, 75>>, <<114, 175>>, <<115, 50>>, <<115, 90>>,
     <<115, 110>>, <<115, 170>>, <<115, 190>>, <<115, 210>>, <<138, 75>>,
     <<138, 175>>, <<139, 150>>, <<163, 150>>, <<201, 50>>, <<201, 150>>,
     <<201, 250>>, <<203, 50>>, <<203, 150>>, <<203, 250>>, <<205, 30>>,
     <<205, 50>>, <<205, 90>>, <<205, 110>>, <<205, 170>>, <<205, 190>>,
     <<205, 210>>, <<205, 230>>, <<207, 50>>, <<226, 25>>, <<226, 75>>,
     <<226, 175>>, <<226, 225>>, <<230, 25>>, <<230, 45>>, <<230, 55>>,
     <<230, 85>>, <<230, 95>>, <<230, 105>>, <<230, 165>>, <<230, 175>>,
     <<230, 185>>, <<230, 195>>, <<230, 205>>, <<230, 215>>, <<251, 50>>,
     <<251, 150>>, <<253, 50>>, <<253, 150>>, <<255, 50>>, <<255, 90>>,
     <<255, 170>>, <<255, 190>>, <<278, 75>>, <<278, 175>>, <<301, 150>>,
     <<303, 150>>, <<326, 75>>}

\* scaling by brightness / 255 instead of brightness / 100
roundScaledOf255(v, brightness) == (2 * v * brightness + MaxChannel) \div (2 * MaxChannel)

\* Math.round(v * scale) with scale = brightness / 100, in IEEE-754 doubles:
\* the nearest integer, halves upwards, of the double product
roundScaled(v, brightness) ==
    LET nearest == (v * brightness + 50) \div 100
    IN  IF <<brightness, v>> \in RoundsBelowHalf THEN nearest - 1 ELSE nearest

\* a pixel whose channels are scaled and whose dword is the copied one
brightenPixelKeepDword(p, brightness) ==
    [p EXCEPT !.r = roundScaled(p.r, brightness),
              !.g = roundScaled(p.g, brightness),
              !.b = roundScaled(p.b, brightness)]

\* the object applyBrightness maps one pixel to
brightenPixel(p, brightness) ==
    [p EXCEPT !.r = roundScaled(p.r, brightness),
              !.g = roundScaled(p.g, brightness),
              !.b = roundScaled(p.b, brightness),
              !.dword = rgbToDword(roundScaled(p.r, brightness),
                                   roundScaled(p.g, brightness),
                                   roundScaled(p.b, brightness))]

\* applyBrightness(pixelData, brightness) on the list pixelData.pixels
applyBrightness(pixels, brightness) ==
    [i \in 1..Len(pixels) |-> brightenPixel(pixels[i], brightness)]

\* -------------------------------------------- ImageProcessor: resize, crop
Min(a, b) == IF a <= b THEN a ELSE b
Max(a, b) == IF a >= b THEN a ELSE b

\* samples of a canvas: a pixel nothing was drawn on, a pixel of the
\* fillRect with '#000000', and the pixel of the source image at (x, y),
\* every one of them a different sample
TransparentSample == -1
BlackSample == 0
sourceSample(image, x, y) == 1 + y * image.width + x

\* a switch on mode whose 'crop-bottom' starts at the top row
sourceRectBottomFromTop(image, targetWidth, targetHeight, mode) ==
    LET sWidth == Min(targetWidth, image.width)
        sHeight == Min(targetHeight, image.height)
    IN  CASE mode \in {"crop-top", "crop-bottom"} ->
               [sx |-> 0, sy |-> 0, sWidth |-> sWidth, sHeight |-> sHeight]
          [] mode = "crop-center" ->
               [sx |-> (image.width - sWidth) \div 2,
                sy |-> (image.height - sHeight) \div 2,
                sWidth |-> sWidth, sHeight |-> sHeight]
          [] OTHER ->
               [sx |-> 0, sy |-> 0, sWidth |-> image.width, sHeight |-> image.height]

\* the switch on mode: the source rectangle sx, sy, sWidth, sHeight
sourceRect(image, targetWidth, targetHeight, mode) ==
    LET sWidth == Min(targetWidth, image.width)
        sHeight == Min(targetHeight, image.height)
    IN  CASE mode = "crop-top" ->
               [sx |-> 0, sy |-> 0, sWidth |-> sWidth, sHeight |-> sHeight]
          [] mode = "crop-bottom" ->
               [sx |-> 0, sy |-> Max(0, image.height - sHeight),
                sWidth |-> sWidth, sHeight |-> sHeight]
          [] mode = "crop-center" ->
               [sx |-> (image.width - sWidth) \div 2,
                sy |-> (image.height - sHeight) \div 2,
                sWidth |-> sWidth, sHeight |-> sHeight]
          [] OTHER ->
               [sx |-> 0, sy |-> 0, sWidth |-> image.width, sHeight |-> image.height]

\* Math.min(scaleX, scaleY) of 'fit', as numerator and denominator
fitScale(image, targetWidth, targetHeight) ==
    IF targetWidth * image.height <= targetHeight * image.width
    THEN <<targetWidth, image.width>>
    ELSE <<targetHeight, image.height>>

\* The triples <<n, num, den>>, all three in 1..16, for which the double
\* n * (num / den) lies just below the integer that n * num / den exactly
\* is: Math.floor takes these one lower.
FloorsBelowProduct == {<<11, 15, 11>>, <<13, 15, 13>>}

\* Math.floor(n * scale) in IEEE-754 doubles
floorScaled(n, scale) ==
    LET exact == (n * scale[1]) \div scale[2]
    IN  IF <<n, scale[1], scale[2]>> \in FloorsBelowProduct THEN exact - 1 ELSE exact

\* a 'fit' that draws over the whole target, as 'stretch' does
destRectFullTarget(image, targetWidth, targetHeight, mode) ==
    [dx |-> 0, dy |-> 0, dWidth |-> targetWidth, dHeight |-> targetHeight]

\* the switch on mode: the destination rectangle dx, dy, dWidth, dHeight
destRect(image, targetWidth, targetHeight, mode) ==
    IF mode = "fit"
    THEN LET scale == fitScale(image, targetWidth, targetHeight)
             dWidth == floorScaled(image.width, scale)
             dHeight == floorScaled(image.height, scale)
         IN  [dx |-> (targetWidth - dWidth) \div 2,
              dy |-> (targetHeight - dHeight) \div 2,
              dWidth |-> dWidth, dHeight |-> dHeight]
    ELSE [dx |-> 0, dy |-> 0, dWidth |-> targetWidth, dHeight |-> targetHeight]

\* a canvas of the target size, row by row; 'fit' fills it with black
newCanvas(targetWidth, targetHeight, mode) ==
    [k \in 1..(targetWidth * targetHeight) |->
        IF mode = "fit" THEN BlackSample ELSE TransparentSample]

\* ctx.drawImage(image, sx, sy, sWidth, sHeight, dx, dy, dWidth, dHeight)
\* with imageSmoothingEnabled = false: a pixel of the destination rectangle
\* takes the source pixel under its centre; an empty rectangle draws nothing
drawImage(canvas, targetWidth, image, s, d) ==
    [k \in 1..Len(canvas) |->
        LET x == (k - 1) % targetWidth
            y == (k - 1) \div targetWidth
        IN  IF /\ x >= d.dx /\ x < d.dx + d.dWidth
               /\ y >= d.dy /\ y < d.dy + d.dHeight
            THEN sourceSample(image,
                    s.sx + ((2 * (x - d.dx) + 1) * s.sWidth) \div (2 * d.dWidth),
                    s.sy + ((2 * (y - d.dy) + 1) * s.sHeight) \div (2 * d.dHeight))
            ELSE canvas[k]]

\* processImageWithResize(image, targetWidth, targetHeight, mode) with the
\* pixels it reads back
processImageWithResizePixels(image, targetWidth, targetHeight, mode) ==
    [width |-> targetWidth, height |-> targetHeight,
     pixels |-> drawImage(newCanvas(targetWidth, targetHeight, mode), targetWidth,
                          image,
                          sourceRect(image, targetWidth, targetHeight, mode),
                          destRect(image, targetWidth, targetHeight, mode))]

\* the call in reprocessFrames: six arguments for the four parameters of
\* processImageWithResize, so cropOffsetX and cropOffsetY bind to nothing
reprocessCall(image, targetWidth, targetHeight, mode, cropOffsetX, cropOffsetY) ==
    processImageWithResizePixels(image, targetWidth, targetHeight, mode)

\* drawCropOverlay: the crop region shown on the preview, clamped to the image
cropRegion(frameWidth, frameHeight, targetWidth, targetHeight, mode, cropOffsetX, cropOffsetY) ==
    LET cropW == Min(targetWidth, frameWidth)
        cropH == Min(targetHeight, frameHeight)
        cropX == CASE mode = "crop-center" -> (frameWidth - cropW) \div 2 + cropOffsetX
                   [] OTHER -> cropOffsetX
        cropY == CASE mode = "crop-bottom" -> Max(0, frameHeight - cropH) + cropOffsetY
                   [] mode = "crop-center" -> (frameHeight - cropH) \div 2 + cropOffsetY
                   [] OTHER -> cropOffsetY
    IN  [cropX |-> Max(0, Min(cropX, frameWidth - cropW)),
         cropY |-> Max(0, Min(cropY, frameHeight - cropH)),
         cropW |-> cropW, cropH |-> cropH]

SourceImages ==
    [width : 1..MaxSourceWidth, height : 1..MaxSourceHeight]
Offsets == (-1)..MaxOffset

\* one frame and the controls reprocessFrames reads, with the frame's
\* pixelData as the last call left it
Resized(image, targetWidth, targetHeight, mode, cropOffsetX, cropOffsetY) ==
    [image |-> image, targetWidth |-> targetWidth, targetHeight |-> targetHeight,
     mode |-> mode, cropOffsetX |-> cropOffsetX, cropOffsetY |-> cropOffsetY,
     pixelData |-> reprocessCall(image, targetWidth, targetHeight, mode,
                                 cropOffsetX, cropOffsetY)]

\* before any call: a 1x1 frame at its own size
NoResize == Resized([width |-> 1, height |-> 1], 1, 1, "crop-top", 0, 0)

\* ------------------------------------------------------- history of a run
NoRun ==
    [clean |-> FALSE, resumed |-> FALSE, mode |-> "loop", n |-> 0, start |-> 0,
     dir |-> 1, trail |-> <<>>]

\* a run starts when play() takes effect
RunAfterPlay(c) ==
    IF playReturnsEarly(c) THEN NoRun
    ELSE [clean |-> TRUE,
          \* this play() directly follows the tick that stopped a 'once' playback
          resumed |-> (lastOp = "tick" /\ ~c.fm.playing),
          mode |-> c.fm.loopMode, n |-> Len(c.fm.frames),
          start |-> c.fm.currentFrame, dir |-> c.fm.direction, trail |-> <<>>]

\* each tick of the run appends the index it left
RunAfterTick(c) ==
    IF run.clean /\ Len(run.trail) < MaxTrail
    THEN [run EXCEPT !.trail = Append(@, c.fm.currentFrame)]
    ELSE NoRun

\* ------------------------------------------- AnimationExporter: the helpers
\* Math.random() * 16 | 0 is one of 0..15
RandomRange == 16
BytesPerPixel == 4

\* '{xxxxxxxx-xxxx-4xxx-yxxx-xxxxxxxxxxxx}'
Repeat(ch, n) == [i \in 1..n |-> ch]
GuidTemplate ==
    <<"{">> \o Repeat("x", 8) \o <<"-">> \o Repeat("x", 4) \o <<"-", "4">>
    \o Repeat("x", 3) \o <<"-", "y">> \o Repeat("x", 3) \o <<"-">>
    \o Repeat("x", 12) \o <<"}">>

\* a callback that treats 'y' as it treats 'x'
replaceCharAlike(c, r) == HexDigits[r + 1]

\* the callback of replace: v = c === 'x' ? r : (r & 0x3 | 0x8), as a
\* hexadecimal digit
replaceChar(c, r) ==
    IF c = "x" THEN HexDigits[r + 1] ELSE HexDigits[BitOrNat(r % 4, 8) + 1]

\* the number of matches of /[xy]/g among the first i characters
RECURSIVE matchesUpTo(_, _)
matchesUpTo(template, i) ==
    IF i = 0 THEN 0
    ELSE matchesUpTo(template, i - 1) + (IF template[i] \in {"x", "y"} THEN 1 ELSE 0)

\* for each position of the template, the matches up to it
MatchIndex == [i \in 1..Len(GuidTemplate) |-> matchesUpTo(GuidTemplate, i)]

\* generateGUID() when the k-th call of Math.random gives random[k]
generateGUID(random) ==
    [i \in 1..Len(GuidTemplate) |->
        IF GuidTemplate[i] \in {"x", "y"}
        THEN replaceChar(GuidTemplate[i], random[MatchIndex[i]])
        ELSE GuidTemplate[i]]

\* outcomes of the random source for one call of generateGUID: the draws
\* seed, seed + stride, seed + 2 * stride, ... modulo 16
RandomDraws(seed, stride) ==
    [k \in 1..MatchIndex[Len(GuidTemplate)] |->
        (seed + (k - 1) * stride) % RandomRange]

\* calculateMemoryUsage(frames, width, height), frames given by its length
calculateMemoryUsage(nFrames, width, height) ==
    LET pixelsPerFrame == width * height
        bytesPerFrame == pixelsPerFrame * BytesPerPixel
    IN  [pixelsPerFrame |-> pixelsPerFrame,
         bytesPerFrame |-> bytesPerFrame,
         totalFrames |-> nFrames,
         totalBytes |-> bytesPerFrame * nFrames]

\* the total above which the report carries the warning
WarningLimit == 10 * 1024 * 1024

\* a report that warns from the limit on
generateMemoryReportAtLimit(nFrames, options) ==
    LET usage == calculateMemoryUsage(nFrames, options.width, options.height)
    IN  [usage |-> usage,
         lines |-> <<"rule", "title", "rule", "pixelsPerFrame", "bytesPerFrame",
                     "totalFrames", "totalMemory", "rule">>
                   \o (IF usage.totalBytes >= WarningLimit
                       THEN <<"WARNING", "advice", "advice", "advice", "rule">>
                       ELSE <<>>)]

\* generateMemoryReport(frames, options): the lines of the report, each by
\* what it holds, and the usage figures printed in them
generateMemoryReport(nFrames, options) ==
    LET usage == calculateMemoryUsage(nFrames, options.width, options.height)
    IN  [usage |-> usage,
         lines |-> <<"rule", "title", "rule", "pixelsPerFrame", "bytesPerFrame",
                     "totalFrames", "totalMemory", "rule">>
                   \o (IF usage.totalBytes > WarningLimit
                       THEN <<"WARNING", "advice", "advice", "advice", "rule">>
                       ELSE <<>>)]

\* resolutions and frame counts the report is asked for
ReportWidths == {256 * k : k \in 1..MaxWidthBlocks}
ReportHeights == {256 * k : k \in 1..MaxHeightBlocks}
NoReport == [usage |-> calculateMemoryUsage(0, 0, 0), lines |-> <<>>]
NoHelperResult == [guid |-> <<>>, report |-> NoReport, nFrames |-> 0, width |-> 0, height |-> 0]

\* ------------------------------------- AnimationExporter: the three exports
\* new Date(): the day and the millisecond of the day of the call
Clocks == [day : 0..MaxDay, ms : 0..MaxMs]
NotBefore(later, earlier) ==
    later.day > earlier.day \/ (later.day = earlier.day /\ later.ms >= earlier.ms)

\* Date.prototype.toISOString(): the date, a 'T', the time of the day
toISOString(clock) == toString10(clock.day) \o <<"T">> \o toString10(clock.ms)

\* str.split('T')[0]: the characters before the first 'T'
RECURSIVE beforeT(_)
beforeT(str) ==
    IF str = <<>> \/ Head(str) = "T" THEN <<>> ELSE <<Head(str)>> \o beforeT(Tail(str))

\* a call of applyBrightness that writes the scaled pixels into pixelData
applyBrightnessInPlace(pixelData, brightness) ==
    [result |-> applyBrightness(pixelData.pixels, brightness),
     pixelData |-> [pixelData EXCEPT !.pixels = applyBrightness(@, brightness)]]

\* applyBrightness(pixelData, brightness) as a call: the array it returns
\* (map builds a new array of new objects) and pixelData after the call
applyBrightnessOn(pixelData, brightness) ==
    [result |-> applyBrightness(pixelData.pixels, brightness),
     pixelData |-> pixelData]

\* the frames an export leaves behind: it calls applyBrightness once on the
\* pixelData of every frame and does nothing else to them
framesAfterExport(frames, options) ==
    [k \in 1..Len(frames) |->
        [frames[k] EXCEPT !.pixelData =
            applyBrightnessOn(frames[k].pixelData, options.brightness).pixelData]]

\* the header and the constants of the two TwinCAT exports
metadataLines(frames, options) ==
    <<<<"Frames", Len(frames)>>,
      <<"Resolution", options.width, options.height>>,
      <<"FPS", options.fps>>,
      <<"nPixelsPerFrame", options.width * options.height>>>>

\* the array of frame k: identifier, bound, tokens
frameArrayLine(frames, options, k) ==
    LET pixels == applyBrightnessOn(frames[k].pixelData, options.brightness).result
    IN  <<"aFrame", frameIndexSuffix(k - 1), Len(pixels) - 1, twinCATTokens(pixels)>>

\* an export whose header carries the whole time stamp
exportTwinCATTextFullStamp(frames, options, clock) ==
    <<<<"Generated", toISOString(clock)>>>>
    \o metadataLines(frames, options)
    \o [k \in 1..Len(frames) |-> frameArrayLine(frames, options, k)]
    \o <<<<"aFrames", framePointers(Len(frames))>>>>

\* exportTwinCAT(frames, options) called at the time clock: the text, line
\* by line, each line by what is written into it
exportTwinCATText(frames, options, clock) ==
    <<<<"Generated", beforeT(toISOString(clock))>>>>
    \o metadataLines(frames, options)
    \o [k \in 1..Len(frames) |-> frameArrayLine(frames, options, k)]
    \o <<<<"aFrames", framePointers(Len(frames))>>>>

\* exportTcGVL(frames, options) when generateGUID() returns guid
exportTcGVLText(frames, options, guid) ==
    <<<<"GVL Id", guid>>>>
    \o metadataLines(frames, options)
    \o [k \in 1..Len(frames) |-> frameArrayLine(frames, options, k)]
    \o <<<<"aFramePointers", framePointers(Len(frames))>>>>

\* exportJSON(frames, options) called at the time clock
exportJSONText(frames, options, clock) ==
    <<<<"generated", toISOString(clock)>>>>
    \o <<<<"metadata", Len(frames), options.width, options.height, options.fps,
           options.brightness, options.width * options.height>>>>
    \o [k \in 1..Len(frames) |->
          LET pixels == applyBrightnessOn(frames[k].pixelData, options.brightness).result
          IN  <<"frame", k - 1, frames[k].filename, jsonTokens(pixels),
                [j \in 1..Len(pixels) |-> <<pixels[j].r, pixels[j].g, pixels[j].b>>]>>]
    \o <<<<"usage">>>>

ExportKinds == {"exportTwinCAT", "exportTcGVL", "exportJSON"}

\* the text of one export, from what it is given and what it reads
exportText(kind, frames, options, clock, guid) ==
    CASE kind = "exportTwinCAT" -> exportTwinCATText(frames, options, clock)
      [] kind = "exportTcGVL" -> exportTcGVLText(frames, options, guid)
      [] kind = "exportJSON" -> exportJSONText(frames, options, clock)

\* frames as loadFrames stores them, with the pixels convertToPixelArray made
EmitFrame(filename, pixels) ==
    [filename |-> filename,
     pixelData |-> [width |-> Len(pixels), height |-> 1, pixels |-> pixels]]
EmitSequences ==
    {<<EmitFrame("a1", <<convertToPixel(MaxChannel, 170, 85, MaxChannel)>>)>>,
     <<EmitFrame("b1", <<convertToPixel(0, 0, MaxChannel, MaxChannel),
                         convertToPixel(170, 1, 0, MaxChannel)>>),
       EmitFrame("b2", <<convertToPixel(3, 85, 0, MaxChannel),
                         convertToPixel(0, 0, 0, 0)>>)>>}

\* parseInt(brightnessSlider.value) at an export
EmitBrightness == {FullBrightness \div 2, MaxBrightness}

NoEmission == [kind |-> "none", frames |-> <<>>, options |-> <<>>, clock |-> [day |-> 0, ms |-> 0], text |-> <<>>]
NoEmissions ==
    [frames |-> <<>>, ingested |-> <<>>, last |-> NoEmission, previous |-> NoEmission]

\* --------------------------------------- history of index and direction
\* at construction nothing but the constructor has written them
NotPlaced == [index |-> "new", direction |-> "new"]

\* who wrote currentFrame and direction last, after operation op led to c:
\* a tick, a goToFrame that passed its range check (it emits frameChange),
\* setFrames; and for direction setLoopMode or the tick that turned round
PlacedAfter(c, op) ==
    [index |-> IF op = "tick" THEN "tick"
               ELSE IF c.emitted.frameChange # <<>> THEN "goToFrame"
               ELSE IF op = "setFrames" THEN "setFrames"
               ELSE placed.index,
     direction |-> IF op = "setLoopMode" THEN "setLoopMode"
                   ELSE IF c.fm.direction # fm.direction THEN "tick"
                   ELSE placed.direction]

\* ----------------------------------------------------------------- actions
Commit(c, op, arg) ==
    /\ fm' = c.fm
    /\ timers' = c.timers
    /\ nextTimer' = c.nextTimer
    /\ emitted' = c.emitted
    /\ lastOp' = op
    /\ lastArg' = arg
    /\ exported' = NoExport
    /\ placed' = PlacedAfter(c, op)
    /\ UNCHANGED <<pixelVars, rs, ex, pageVars>>

Init ==
    /\ fm = NewFrameManager
    /\ timers = {}
    /\ nextTimer = 1
    /\ emitted = NoEvents
    /\ lastOp = "new"
    /\ lastArg = <<>>
    /\ run = NoRun
    /\ sh = NewSequenceHandler
    /\ ui \in InitialControls
    /\ aliased = FALSE
    /\ loads = {}
    /\ started = 0
    /\ exported = NoExport
    /\ pixel = BlankPixel
    /\ output = BlankPixel
    /\ rs = NoResize
    /\ ex = NoHelperResult
    /\ em = NoEmissions
    /\ currentTab = "single"
    /\ placed = NotPlaced

Play ==
    /\ nextTimer <= MaxTimerId
    /\ Commit(play(Ctx), "play", <<>>)
    /\ run' = RunAfterPlay(Ctx)
    /\ UNCHANGED appVars

Stop ==
    /\ Commit(stop(Ctx), "stop", <<>>)
    /\ run' = NoRun
    /\ UNCHANGED appVars

SetFPS ==
    \E fps \in FpsValues :
        /\ nextTimer <= MaxTimerId
        /\ Commit(setFPS(Ctx, fps), "setFPS", <<fps>>)
        /\ run' = NoRun
        /\ UNCHANGED appVars

SetFrames ==
    \E batch \in 1..2, n \in 0..MaxFrames :
        /\ Commit(setFrames(Ctx, FrameList(batch, n)), "setFrames", <<FrameList(batch, n)>>)
        /\ run' = NoRun
        /\ UNCHANGED appVars

SetLoopMode ==
    \E mode \in LoopModes :
        /\ Commit(setLoopMode(Ctx, mode), "setLoopMode", <<mode>>)
        /\ run' = NoRun
        /\ UNCHANGED appVars

GoToFrame ==
    \E index \in -1..MaxFrames :
        /\ Commit(goToFrame(Ctx, index), "goToFrame", <<index>>)
        /\ run' = NoRun
        /\ UNCHANGED appVars

NextFrame ==
    /\ Commit(nextFrame(Ctx), "nextFrame", <<>>)
    /\ run' = NoRun
    /\ UNCHANGED appVars

PreviousFrame ==
    /\ Commit(previousFrame(Ctx), "previousFrame", <<>>)
    /\ run' = NoRun
    /\ UNCHANGED appVars

Destroy ==
    /\ Commit(destroy(Ctx), "destroy", <<>>)
    /\ run' = NoRun
    /\ UNCHANGED appVars

\* the callback of an active interval timer fires
Tick ==
    \E t \in timers :
        /\ Commit(advanceFrame(Ctx), "tick", <<t.id>>)
        /\ run' = RunAfterTick(advanceFrame(Ctx))
        /\ UNCHANGED appVars

Next ==
    \/ Play
    \/ Stop
    \/ SetFPS
    \/ SetFrames
    \/ SetLoopMode
    \/ GoToFrame
    \/ NextFrame
    \/ PreviousFrame
    \/ Destroy
    \/ Tick

Spec == Init /\ [][Next]_vars

\* the controller on a page whose event loop keeps running: the callback of
\* an interval that stays active is called again and again
SpecFairTicks == Spec /\ WF_vars(Tick)

\* stop() called while a listener that restarts playback is registered
StopWithReplayingListener ==
    /\ nextTimer <= MaxTimerId
    /\ Commit(stopWithReplayingListener(Ctx), "stop:listener plays", <<>>)
    /\ run' = NoRun
    /\ UNCHANGED appVars

NextReentrant ==
    \/ Next
    \/ StopWithReplayingListener

\* the controller with a client whose playStateChange listener calls play()
SpecReentrant == Init /\ [][NextReentrant]_vars

\* ---------------------------------------------------- actions of the handler
\* an operation of the handler that leaves the controller alone
Handler(h, op, arg) ==
    /\ Commit(WithFrames(Ctx, h, h.frames).c, op, arg)
    /\ sh' = h
    /\ run' = NoRun

\* a drop or a file selection: loadFrames(files) runs up to its first await
StartLoad ==
    \E n \in 1..MaxFiles :
        /\ started < MaxLoads
        /\ started' = started + 1
        /\ loads' = loads \cup {[batch |-> started + 1, n |-> n, i |-> 0]}
        /\ aliased' = FALSE
        /\ Commit(Ctx, "loadFrames", <<started + 1>>)
        /\ sh' = loadFramesBegin(sh)
        /\ run' = NoRun
        /\ UNCHANGED ui

\* the image of frame i has been decoded: loadFrames resumes, and runs to
\* its next loadImageFromFile, to its end, or to the throw
ImageLoaded ==
    \E l \in loads, w \in Widths, h \in Heights :
        LET image == [width |-> w, height |-> h] IN
        IF dimensionMismatch(sh, l.i, image)
        THEN /\ loads' = loads \ {l}
             /\ Commit(Ctx, "loadFrames:mismatch", <<l.batch>>)
             /\ run' = NoRun
             /\ UNCHANGED <<sh, ui, aliased, started>>
        ELSE LET h1 == loadFramesPush(sh, l.batch, l.i, image)
                 c1 == WithFrames(Ctx, h1, h1.frames).c
             IN  IF l.i + 1 < l.n
                 THEN /\ loads' = (loads \ {l}) \cup {[l EXCEPT !.i = @ + 1]}
                      /\ Commit(c1, "loadFrames:frame", <<l.batch>>)
                      /\ sh' = h1
                      /\ run' = NoRun
                      /\ UNCHANGED <<ui, aliased, started>>
                 ELSE /\ loads' = loads \ {l}
                      /\ Commit(goToFrame(setFrames(c1, h1.frames), 0),
                                "loadFrames:done", <<l.batch>>)
                      /\ sh' = h1
                      /\ aliased' = TRUE
                      /\ run' = NoRun
                      /\ UNCHANGED <<ui, started>>

\* the image of frame i cannot be read or decoded: loadImageFromFile rejects
ImageError ==
    \E l \in loads :
        /\ loads' = loads \ {l}
        /\ Commit(Ctx, "loadFrames:error", <<l.batch>>)
        /\ run' = NoRun
        /\ UNCHANGED <<sh, ui, aliased, started>>

\* 'change' of the custom resolution checkbox
ToggleCustomResolution ==
    LET enabled == ~ui.useCustomResolution IN
    /\ ui' = IF enabled /\ Len(sh.frames) > 0
             THEN [ui EXCEPT !.useCustomResolution = enabled,
                             !.outputWidth = sh.frameWidth,
                             !.outputHeight = sh.frameHeight]
             ELSE [ui EXCEPT !.useCustomResolution = enabled]
    /\ Handler(sh, "useCustomResolution", <<>>)
    /\ UNCHANGED <<aliased, loads, started>>

\* 'change' of the output width input (enabled with the checkbox)
SetOutputWidth ==
    \E w \in Widths, mode \in CropModes :
        /\ ui.useCustomResolution
        /\ ui' = [ui EXCEPT !.outputWidth = w]
        /\ Handler(reprocessFrames(sh, ui', mode), "outputWidth", <<>>)
        /\ UNCHANGED <<aliased, loads, started>>

\* 'change' of the output height input
SetOutputHeight ==
    \E h \in Heights, mode \in CropModes :
        /\ ui.useCustomResolution
        /\ ui' = [ui EXCEPT !.outputHeight = h]
        /\ Handler(reprocessFrames(sh, ui', mode), "outputHeight", <<>>)
        /\ UNCHANGED <<aliased, loads, started>>

\* 'change' of the crop mode select, or of a crop offset input
SetCropModeOrOffset ==
    \E mode \in CropModes :
        /\ ui.useCustomResolution
        /\ Handler(reprocessFrames(sh, ui, mode), "crop", <<>>)
        /\ UNCHANGED <<ui, aliased, loads, started>>

\* click on the TwinCAT export button: SequenceHandler.exportTwinCAT()
ExportTwinCAT ==
    /\ exported' = exportTwinCAT(sh.frames, getOutputDimensions(sh, ui))
    /\ lastOp' = "exportTwinCAT"
    /\ lastArg' = <<>>
    /\ emitted' = NoEvents
    /\ run' = NoRun
    /\ UNCHANGED <<fm, timers, nextTimer, sh, ui, aliased, loads, started>>
    /\ UNCHANGED <<pixelVars, rs, ex, pageVars, placed>>

NextHandler ==
    \/ StartLoad
    \/ ImageLoaded
    \/ ImageError
    \/ ToggleCustomResolution
    \/ SetOutputWidth
    \/ SetOutputHeight
    \/ SetCropModeOrOffset
    \/ ExportTwinCAT

\* ingestion, resizing and export: the handler driven by the page, with the
\* controller it feeds
SpecHandler == Init /\ [][NextHandler]_vars

\* ------------------------------------------- actions of the image processor
\* convertToPixelArray(imageData) reaches the four bytes of a pixel
ConvertToPixelArray ==
    \E r \in ChannelSamples, g \in ChannelSamples, b \in ChannelSamples,
       a \in AlphaSamples :
        /\ pixel' = convertToPixel(r, g, b, a)
        /\ output' = BlankPixel
        /\ lastOp' = "convertToPixelArray"
        /\ lastArg' = <<r, g, b, a>>
        /\ UNCHANGED <<fm, timers, nextTimer, emitted, run, exported, rs, ex, pageVars, placed>>
        /\ UNCHANGED appVars

\* an export or a preview calls applyBrightness on the converted pixels
ApplyBrightness ==
    \E brightness \in BrightnessValues :
        /\ output' = applyBrightness(<<pixel>>, brightness)[1]
        /\ lastOp' = "applyBrightness"
        /\ lastArg' = <<brightness>>
        /\ UNCHANGED <<fm, timers, nextTimer, emitted, run, exported, pixel, rs, ex, pageVars, placed>>
        /\ UNCHANGED appVars

NextPixel ==
    \/ ConvertToPixelArray
    \/ ApplyBrightness

\* the pixel encoding: conversion of image bytes and brightness scaling
SpecPixel == Init /\ [][NextPixel]_vars

\* ------------------------------------------------- actions of the resizing
\* reprocessFrames runs on a frame holding another image
ResizeImage ==
    \E image \in SourceImages :
        /\ rs' = Resized(image, rs.targetWidth, rs.targetHeight, rs.mode,
                         rs.cropOffsetX, rs.cropOffsetY)
        /\ lastOp' = "reprocessFrames"
        /\ lastArg' = <<>>
        /\ UNCHANGED <<fm, timers, nextTimer, emitted, run, exported, pixelVars, ex, pageVars, placed>>
        /\ UNCHANGED appVars

\* the change of one control (outputWidth, outputHeight, cropMode,
\* cropOffsetX, cropOffsetY) followed by reprocessFrames
ResizeControl ==
    \E c \in {"targetWidth", "targetHeight", "mode", "cropOffsetX", "cropOffsetY"} :
        \E v \in CASE c = "targetWidth" -> 1..MaxTargetWidth
                   [] c = "targetHeight" -> 1..MaxTargetHeight
                   [] c = "mode" -> CropModes
                   [] OTHER -> Offsets :
            LET r == [rs EXCEPT ![c] = v]
            IN  /\ rs' = Resized(r.image, r.targetWidth, r.targetHeight, r.mode,
                                 r.cropOffsetX, r.cropOffsetY)
                /\ lastOp' = "reprocessFrames"
                /\ lastArg' = <<>>
                /\ UNCHANGED <<fm, timers, nextTimer, emitted, run, exported, pixelVars, ex, pageVars, placed>>
                /\ UNCHANGED appVars

NextResize ==
    \/ ResizeImage
    \/ ResizeControl

\* the resizing of a frame to the output resolution
SpecResize == Init /\ [][NextResize]_vars

\* ------------------------------------ actions of the exporter's helpers
\* exportTcGVL asks for a GUID
GenerateGUID ==
    \E seed \in 0..(RandomRange - 1), stride \in 0..(RandomRange - 1) :
        /\ ex' = [NoHelperResult EXCEPT !.guid = generateGUID(RandomDraws(seed, stride))]
        /\ lastOp' = "generateGUID"
        /\ lastArg' = <<>>
        /\ UNCHANGED <<fm, timers, nextTimer, emitted, run, exported, pixelVars, rs, pageVars, placed>>
        /\ UNCHANGED appVars

\* a memory report for nFrames frames of width x height
GenerateMemoryReport ==
    \E nFrames \in 0..MaxReportFrames, width \in ReportWidths, height \in ReportHeights :
        /\ ex' = [NoHelperResult EXCEPT
                    !.report = generateMemoryReport(nFrames, [width |-> width, height |-> height]),
                    !.nFrames = nFrames, !.width = width, !.height = height]
        /\ lastOp' = "generateMemoryReport"
        /\ lastArg' = <<>>
        /\ UNCHANGED <<fm, timers, nextTimer, emitted, run, exported, pixelVars, rs, pageVars, placed>>
        /\ UNCHANGED appVars

NextExporter ==
    \/ GenerateGUID
    \/ GenerateMemoryReport

\* the helpers of the AnimationExporter: GUIDs and memory reports
SpecExporter == Init /\ [][NextExporter]_vars

\* ------------------------------------------------------ actions of the page
\* a click on a tab
SwitchTab ==
    \E tabName \in TabNames :
        LET c == switchTab(Ctx, tabName) IN
        /\ fm' = c.fm
        /\ timers' = c.timers
        /\ nextTimer' = c.nextTimer
        /\ emitted' = c.emitted
        /\ lastOp' = "switchTab"
        /\ lastArg' = <<tabName>>
        /\ currentTab' = tabName
        /\ placed' = PlacedAfter(c, "switchTab")
        /\ UNCHANGED <<run, exported, pixelVars, rs, ex, em>>
        /\ UNCHANGED appVars

\* keydown of Space: in the sequence tab it clicks the play button
PressSpace ==
    /\ currentTab = "sequence"
    /\ nextTimer <= MaxTimerId
    /\ Commit(togglePlayback(Ctx), "Space", <<>>)
    /\ UNCHANGED run
    /\ UNCHANGED appVars

\* keydown of ArrowLeft or ArrowRight: in the sequence tab it steps a frame
PressArrow ==
    \E code \in {"ArrowLeft", "ArrowRight"} :
        /\ currentTab = "sequence"
        /\ Commit(IF code = "ArrowLeft" THEN previousFrame(Ctx) ELSE nextFrame(Ctx),
                  code, <<>>)
        /\ UNCHANGED run
        /\ UNCHANGED appVars

\* files dropped on the drop zone of the sequence tab
DropFrames ==
    /\ currentTab = "sequence"
    /\ StartLoad

\* the callback of an active interval timer fires
TimerFires ==
    \E t \in timers :
        /\ Commit(advanceFrame(Ctx), "tick", <<>>)
        /\ UNCHANGED run
        /\ UNCHANGED appVars

NextPage ==
    \/ SwitchTab
    \/ PressSpace
    \/ PressArrow
    \/ DropFrames
    \/ ImageLoaded
    \/ ImageError
    \/ TimerFires

\* the page: tabs, keyboard shortcuts, loading and playback of a sequence
SpecPage == Init /\ [][NextPage]_vars

\* --------------------------------------------------- actions of the exports
\* loadFrames has stored a sequence of frames
IngestFrames ==
    \E frames \in EmitSequences :
        /\ em' = [em EXCEPT !.frames = frames, !.ingested = frames]
        /\ lastOp' = "loadFrames:done"
        /\ lastArg' = <<>>
        /\ UNCHANGED <<fm, timers, nextTimer, emitted, run, exported, pixelVars, rs, ex>>
        /\ UNCHANGED <<appVars, currentTab, placed>>

\* a click on an export button, some time after the export before it
Emit ==
    \E kind \in ExportKinds, brightness \in EmitBrightness, clock \in Clocks,
       seed \in 0..MaxSeed :
        LET options == [name |-> "MY_ANIMATION", brightness |-> brightness,
                        fps |-> DefaultFps,
                        width |-> em.frames[1].pixelData.width,
                        height |-> em.frames[1].pixelData.height]
            guid == generateGUID(RandomDraws(seed, 1))
        IN  /\ em.frames # <<>>
            /\ NotBefore(clock, em.last.clock)
            /\ kind # "exportTcGVL" => seed = 0
            /\ em' = [em EXCEPT
                        !.frames = framesAfterExport(em.frames, options),
                        !.previous = em.last,
                        !.last = [kind |-> kind, frames |-> em.frames,
                                  options |-> options, clock |-> clock,
                                  text |-> exportText(kind, em.frames, options, clock, guid)]]
            /\ lastOp' = kind
            /\ lastArg' = <<>>
            /\ UNCHANGED <<fm, timers, nextTimer, emitted, run, exported, pixelVars, rs, ex>>
            /\ UNCHANGED <<appVars, currentTab, placed>>

NextEmit ==
    \/ IngestFrames
    \/ Emit

\* exports of a stored sequence, one after the other
SpecEmit == Init /\ [][NextEmit]_vars

\* ================================================================ properties

\* C1: at most one interval timer is active, and one is active exactly when
\* the playing flag is true (play() while playing creates no second timer).
C1_OneTimerIffPlaying ==
    /\ Cardinality(timers) <= 1
    /\ (timers # {}) <=> fm.playing
    /\ \A t \in timers : t.id = fm.animationTimer

\* play() was called while playing and did nothing: still one timer
C1_Witness ==
    /\ lastOp = "play"
    /\ emitted = NoEvents
    /\ fm.playing
    /\ Cardinality(timers) = 1

\* C2: whenever the sequence is non-empty, 0 <= currentFrame < frames.length.
C2_IndexInRange ==
    Len(fm.frames) > 0 =>
        /\ fm.currentFrame # NaN
        /\ 0 <= fm.currentFrame
        /\ fm.currentFrame < Len(fm.frames)

\* a tick of a single-frame pingpong playback that had turned round
C2_Witness ==
    /\ lastOp = "tick"
    /\ fm.loopMode = "pingpong"
    /\ Len(fm.frames) = 1
    /\ fm.direction = -1
    /\ fm.currentFrame = 0

\* C3: all frames of the handler's sequence have pixelData of one width and
\* height, in every reachable state.
C3_UniformDimensions ==
    \A j, k \in 1..Len(sh.frames) :
        /\ sh.frames[j].pixelData.width = sh.frames[k].pixelData.width
        /\ sh.frames[j].pixelData.height = sh.frames[k].pixelData.height

\* C4: after loadFrames has failed on a dimension mismatch, the handler's
\* sequence holds no frame of the failed batch.
C4_NoPartialBatch ==
    lastOp = "loadFrames:mismatch" =>
        \A k \in 1..Len(sh.frames) : sh.frames[k].batch # lastArg[1]

\* C5: at every export, the width*height handed to the exporter equals the
\* number of elements of every per-frame array.
C5_ExportSizeMatches ==
    lastOp = "exportTwinCAT" =>
        \A k \in 1..Len(exported.arrays) :
            exported.width * exported.height = exported.arrays[k]

\* a 'once' playback of run.n frames started by play() at index 0, ticks only
OnceRunFromZero == run.clean /\ run.mode = "once" /\ run.start = 0

\* C6 as stated (here for N >= 2 frames): after exactly N-1 ticks the
\* controller is stopped, its timer cancelled, and the index is N-1.
C6_StoppedAfterNMinus1Ticks ==
    (OnceRunFromZero /\ run.n >= 2 /\ Len(run.trail) = run.n - 1) =>
        /\ ~fm.playing
        /\ timers = {}
        /\ fm.currentFrame = run.n - 1

\* C6 amended: after N-1 ticks the index is N-1 and the controller is still
\* playing; it is the N-th tick that stops it, with the index still N-1.
C6_StoppedAfterNTicks ==
    OnceRunFromZero =>
        /\ Len(run.trail) <= run.n
        /\ Len(run.trail) < run.n => (fm.playing /\ Cardinality(timers) = 1)
        /\ Len(run.trail) = run.n - 1 => fm.currentFrame = run.n - 1
        /\ Len(run.trail) = run.n =>
              (~fm.playing /\ timers = {} /\ fm.currentFrame = run.n - 1)

C6_Witness ==
    /\ OnceRunFromZero
    /\ run.n >= 2
    /\ Len(run.trail) = run.n
    /\ lastOp = "tick"
    /\ ~fm.playing

\* play() is called right after the tick that stopped a 'once' playback
PlayAfterOnceEnd == lastOp = "tick" /\ ~fm.playing /\ lastOp' = "play"

\* C7 as stated: after a 'once' playback has stopped at the last frame,
\* play() is a no-op (stays stopped, no timer, no notification).
C7_PlayIsNoOpAfterOnceEnd ==
    [][PlayAfterOnceEnd =>
        (fm' = fm /\ timers' = timers /\ emitted' = NoEvents)]_vars

\* C7 amended: after a 'once' playback has stopped at the last frame, play()
\* starts playing again: one new timer, one playStateChange(true), and the
\* index stays on the last frame.
C7_PlayRestartsAfterOnceEnd ==
    [][PlayAfterOnceEnd =>
        /\ fm.loopMode = "once"
        /\ fm.currentFrame = Len(fm.frames) - 1
        /\ fm'.playing
        /\ Cardinality(timers') = 1
        /\ timers \cap timers' = {}
        /\ emitted' = [playStateChange |-> <<TRUE>>, frameChange |-> <<>>]
        /\ fm'.currentFrame = fm.currentFrame]_vars

C7_Witness ==
    /\ lastOp = "play"
    /\ run.clean
    /\ run.resumed
    /\ run.mode = "once"
    /\ fm.playing
    /\ fm.currentFrame = Len(fm.frames) - 1

\* a pingpong playback of 3 frames started at index 0 with direction +1
PingpongRunOfThree ==
    run.clean /\ run.mode = "pingpong" /\ run.n = 3 /\ run.start = 0 /\ run.dir = 1

\* the indices after the first ticks of the run are those of expected
TrailFollows(expected) ==
    \A k \in 1..Len(run.trail) : k <= Len(expected) => run.trail[k] = expected[k]

\* C8 as stated: the indices after six ticks are 1,2,2,1,0,0.
C8_BounceHoldsAtEnds == PingpongRunOfThree => TrailFollows(<<1, 2, 2, 1, 0, 0>>)

\* C8 amended: the indices after six ticks are 1,2,1,0,1,2.
C8_BounceTurnsAtEnds == PingpongRunOfThree => TrailFollows(<<1, 2, 1, 0, 1, 2>>)

C8_Witness == PingpongRunOfThree /\ Len(run.trail) >= 6 /\ lastOp = "tick"

\* C9: setFrames(sequence) leaves the controller holding the new sequence, at
\* index 0, stopped, with no active timer; it emits playStateChange(false)
\* once if it was playing and nothing otherwise.
C9_SetFramesResets ==
    [][lastOp' = "setFrames" =>
        /\ fm'.frames = lastArg'[1]
        /\ fm'.currentFrame = 0
        /\ ~fm'.playing
        /\ timers' = {}
        /\ fm'.animationTimer = NoTimer
        /\ emitted'.playStateChange = (IF fm.playing THEN <<FALSE>> ELSE <<>>)
        /\ emitted'.frameChange = <<>>]_vars

\* setFrames stopped a playback that was away from index 0
C9_Witness ==
    /\ lastOp = "setFrames"
    /\ emitted.playStateChange = <<FALSE>>
    /\ Len(fm.frames) > 0
    /\ fm.currentFrame = 0
    /\ timers = {}

\* C10: setFPS(fps) while playing restarts the controller: the old timer is
\* cancelled, one timer of period 1000/fps is active, playStateChange(false)
\* then (true) were emitted, index and direction are unchanged; while stopped
\* it only updates the rate.
C10_SetFPSRestarts ==
    [][lastOp' = "setFPS" =>
        IF fm.playing
        THEN /\ fm'.playing
             /\ fm'.fps = lastArg'[1]
             /\ \E t \in timers' :
                   /\ timers' = {t}
                   /\ t.interval = <<MsPerSecond, lastArg'[1]>>
                   /\ t.id = fm'.animationTimer
                   /\ \A old \in timers : old.id # t.id
             /\ emitted' = [playStateChange |-> <<FALSE, TRUE>>, frameChange |-> <<>>]
             /\ fm'.currentFrame = fm.currentFrame
             /\ fm'.direction = fm.direction
             /\ fm'.frames = fm.frames
             /\ fm'.loopMode = fm.loopMode
        ELSE /\ fm' = [fm EXCEPT !.fps = lastArg'[1]]
             /\ emitted' = NoEvents
             /\ timers' = {}
             /\ timers = {}]_vars

\* setFPS changed the rate of a running pingpong playback going backwards
C10_Witness ==
    /\ lastOp = "setFPS"
    /\ emitted.playStateChange = <<FALSE, TRUE>>
    /\ fm.playing
    /\ fm.direction = -1
    /\ fm.currentFrame > 0
    /\ \E t \in timers : t.interval = <<MsPerSecond, fm.fps>> /\ fm.fps # DefaultFps

\* C11: play() changes nothing and emits nothing when the controller is
\* already playing or has no frames; otherwise it sets the playing flag, emits
\* playStateChange(true) once and starts exactly one interval of 1000/fps ms.
C11_PlayNoOpOrStarts ==
    [][lastOp' = "play" =>
        IF Len(fm.frames) = 0 \/ fm.playing
        THEN fm' = fm /\ timers' = timers /\ emitted' = NoEvents
        ELSE /\ emitted' = [NoEvents EXCEPT !.playStateChange = <<TRUE>>]
             /\ \E t \in timers' :
                  /\ timers' = {t}
                  /\ t \notin timers
                  /\ t.interval = <<MsPerSecond, fm.fps>>
                  /\ fm' = [fm EXCEPT !.playing = TRUE, !.animationTimer = t.id]]_vars

C11_Witness ==
    /\ lastOp = "play"
    /\ emitted = [NoEvents EXCEPT !.playStateChange = <<TRUE>>]
    /\ fm.fps # DefaultFps
    /\ fm.currentFrame > 0
    /\ timers = {[id |-> fm.animationTimer, interval |-> <<MsPerSecond, fm.fps>>]}

\* C12: stop() changes nothing and emits nothing when already stopped;
\* otherwise it cancels the interval, clears the flag and the handle and emits
\* playStateChange(false). A tick fires only while playing, and a stopped
\* controller stays stopped, with no interval, until play() is called.
C12_StopCancelsTicks ==
    [][/\ lastOp' = "stop" =>
            IF ~fm.playing
            THEN fm' = fm /\ timers' = timers /\ emitted' = NoEvents
            ELSE /\ fm' = [fm EXCEPT !.playing = FALSE, !.animationTimer = NoTimer]
                 /\ timers' = {}
                 /\ emitted' = [NoEvents EXCEPT !.playStateChange = <<FALSE>>]
       /\ lastOp' = "tick" => fm.playing
       /\ (~fm.playing /\ lastOp' # "play") => (~fm'.playing /\ timers' = {})]_vars

C12_Witness ==
    /\ lastOp = "stop"
    /\ emitted = [NoEvents EXCEPT !.playStateChange = <<FALSE>>]
    /\ ~fm.playing
    /\ timers = {}
    /\ fm.currentFrame > 0

\* C13: goToFrame(i) with i < 0 or i >= frame count leaves the controller and
\* its timer as they were and emits nothing.
C13_OutOfRangeIgnored ==
    [][(lastOp' = "goToFrame" /\ (lastArg'[1] < 0 \/ lastArg'[1] >= Len(fm.frames))) =>
        fm' = fm /\ timers' = timers /\ emitted' = NoEvents]_vars

C13_Witness ==
    /\ lastOp = "goToFrame"
    /\ Len(fm.frames) > 0
    /\ lastArg[1] = Len(fm.frames)
    /\ fm.playing
    /\ emitted = NoEvents

\* C14: goToFrame(i) with 0 <= i < frame count sets the index to i and emits
\* frameChange(i); nextFrame and previousFrame on a non-empty sequence set an
\* index in range and emit frameChange of it; all three leave the playing
\* flag, the timer, the loop mode and the direction as they were.
C14_NavigationKeepsPlayState ==
    [][/\ (lastOp' = "goToFrame" /\ lastArg'[1] >= 0 /\ lastArg'[1] < Len(fm.frames)) =>
            /\ fm' = [fm EXCEPT !.currentFrame = lastArg'[1]]
            /\ timers' = timers
            /\ emitted' = [NoEvents EXCEPT !.frameChange = <<lastArg'[1]>>]
       /\ (lastOp' \in {"nextFrame", "previousFrame"} /\ Len(fm.frames) > 0) =>
            /\ fm'.currentFrame \in 0..(Len(fm.frames) - 1)
            /\ fm' = [fm EXCEPT !.currentFrame = fm'.currentFrame]
            /\ timers' = timers
            /\ emitted' = [NoEvents EXCEPT !.frameChange = <<fm'.currentFrame>>]]_vars

C14_Witness ==
    /\ lastOp = "goToFrame"
    /\ fm.playing
    /\ fm.loopMode = "pingpong"
    /\ fm.direction = -1
    /\ timers # {}
    /\ emitted = [NoEvents EXCEPT !.frameChange = <<lastArg[1]>>]

\* C15: on a sequence of count >= 1 frames nextFrame() sets the index to
\* (index + 1) mod count and previousFrame() sets it to index - 1, or to
\* count - 1 from index 0; each undoes the other, and count calls of
\* nextFrame() come back to the starting index.
C15_NextPreviousInverse ==
    [][Len(fm.frames) >= 1 =>
        LET count == Len(fm.frames)
            index == fm.currentFrame
        IN  /\ nextFrame(Ctx).fm.currentFrame = (index + 1) % count
            /\ previousFrame(Ctx).fm.currentFrame =
                  (IF index = 0 THEN count - 1 ELSE index - 1)
            /\ previousFrame(nextFrame(Ctx)).fm.currentFrame = index
            /\ nextFrame(previousFrame(Ctx)).fm.currentFrame = index
            /\ nextFrameTimes(Ctx, count).fm.currentFrame = index
            /\ lastOp' = "nextFrame" => fm'.currentFrame = (index + 1) % count
            /\ lastOp' = "previousFrame" =>
                  fm'.currentFrame = (IF index = 0 THEN count - 1 ELSE index - 1)]_vars

C15_Witness ==
    /\ lastOp = "previousFrame"
    /\ Len(fm.frames) >= 3
    /\ fm.currentFrame = Len(fm.frames) - 1
    /\ emitted.frameChange = <<Len(fm.frames) - 1>>

\* C16 as stated (here for two or more frames): a tick emits frameChange
\* exactly when it changed the index, and the payload is the new index.
C16_FrameChangeIffAdvanced ==
    [][(lastOp' = "tick" /\ Len(fm.frames) >= 2) =>
        /\ (emitted'.frameChange # <<>>) <=> (fm'.currentFrame # fm.currentFrame)
        /\ emitted'.frameChange \in {<<>>, <<fm'.currentFrame>>}]_vars

\* C16 amended: every tick emits exactly one frameChange, whether or not it
\* changed the index, and the payload is the index the tick left (the tick
\* that stops a 'once' playback emits playStateChange(false) before it).
C16_EveryTickEmitsCurrentIndex ==
    [][lastOp' = "tick" =>
        /\ emitted'.frameChange = <<fm'.currentFrame>>
        /\ emitted'.playStateChange =
              (IF fm.loopMode = "once" /\ fm.currentFrame >= Len(fm.frames) - 1
               THEN <<FALSE>> ELSE <<>>)]_vars

C16_Witness ==
    /\ lastOp = "tick"
    /\ fm.loopMode = "once"
    /\ Len(fm.frames) >= 2
    /\ emitted = [playStateChange |-> <<FALSE>>, frameChange |-> <<fm.currentFrame>>]

\* a playback under 'loop' since play(), with nothing but ticks
LoopRun == run.clean /\ run.mode = "loop"

\* C17: under 'loop' with count >= 1 frames and nothing but ticks, the index
\* after k ticks from index i is (i + k) mod count, and after every tick the
\* controller is still playing with its one timer.
C17_LoopWrapsAndKeepsPlaying ==
    LoopRun =>
        /\ run.n >= 1
        /\ \A k \in 1..Len(run.trail) : run.trail[k] = (run.start + k) % run.n
        /\ fm.currentFrame = (run.start + Len(run.trail)) % run.n
        /\ fm.playing
        /\ Cardinality(timers) = 1

C17_Witness ==
    /\ LoopRun
    /\ lastOp = "tick"
    /\ run.n >= 2
    /\ run.start > 0
    /\ Len(run.trail) > run.n

\* C18: setLoopMode(mode), for 'loop', 'once' and 'pingpong' (the bounce
\* discipline), stores the mode and sets the direction to +1, leaving index,
\* playing flag and timer as they were; the tick that follows
\* setLoopMode('pingpong') at an interior index moves one frame forward.
C18_SetLoopModeResetsDirection ==
    [][/\ lastOp' = "setLoopMode" =>
            /\ lastArg'[1] \in LoopModes
            /\ fm' = [fm EXCEPT !.loopMode = lastArg'[1], !.direction = 1]
            /\ timers' = timers
            /\ emitted' = NoEvents
       /\ (/\ lastOp = "setLoopMode" /\ lastArg = <<"pingpong">>
           /\ lastOp' = "tick"
           /\ fm.currentFrame > 0 /\ fm.currentFrame < Len(fm.frames) - 1) =>
            fm'.currentFrame = fm.currentFrame + 1]_vars

C18_Witness ==
    /\ lastOp = "setLoopMode"
    /\ lastArg = <<"pingpong">>
    /\ fm.playing
    /\ fm.direction = 1
    /\ fm.currentFrame > 0
    /\ fm.currentFrame < Len(fm.frames) - 1

\* byte k (0 = lowest) of a word, and what lies above its three low bytes
ByteOf(word, k) == (word \div 256^k) % 256
HighBits(word) == word \div 256^3

\* C19: for all r, g, b in 0..255, rgbToDword(r, g, b) = r + 256*g +
\* 65536*b: red is byte 0, green byte 1, blue byte 2 and bits 24-31 are
\* zero, so the three channels are recovered from the word. Checked on the
\* converted pixel, and for every value 0..255 of each channel in turn with
\* the other two channels as converted.
C19_DwordIsBBGGRR ==
    lastOp = "convertToPixelArray" =>
        /\ pixel.dword = pixel.r + 256 * pixel.g + 65536 * pixel.b
        /\ ByteOf(pixel.dword, 0) = pixel.r
        /\ ByteOf(pixel.dword, 1) = pixel.g
        /\ ByteOf(pixel.dword, 2) = pixel.b
        /\ HighBits(pixel.dword) = 0
        /\ \A x \in 0..MaxChannel :
              /\ rgbToDword(x, pixel.g, pixel.b) = x + 256 * pixel.g + 65536 * pixel.b
              /\ rgbToDword(pixel.r, x, pixel.b) = pixel.r + 256 * x + 65536 * pixel.b
              /\ rgbToDword(pixel.r, pixel.g, x) = pixel.r + 256 * pixel.g + 65536 * x

C19_Witness ==
    /\ lastOp = "convertToPixelArray"
    /\ pixel.r = MaxChannel
    /\ pixel.g \notin {0, MaxChannel}
    /\ pixel.b = MaxChannel
    /\ pixel.dword = 256^3 - 1 - 256 * (MaxChannel - pixel.g)

\* C20: when a brightness above 100 scales a channel to 256 or more, the
\* byte of that channel in the packed word is the scaled value mod 256, the
\* bytes of the other channels are their scaled values, and bits 24-31 of
\* the word are zero.
C20_OverflowWrapsInItsByte ==
    (/\ lastOp = "applyBrightness"
     /\ lastArg[1] > FullBrightness
     /\ (output.r > MaxChannel \/ output.g > MaxChannel \/ output.b > MaxChannel)) =>
        /\ ByteOf(output.dword, 0) = output.r % 256
        /\ ByteOf(output.dword, 1) = output.g % 256
        /\ ByteOf(output.dword, 2) = output.b % 256
        /\ HighBits(output.dword) = 0

\* C21: the dword stored in a pixel object that convertToPixelArray or
\* applyBrightness produced is rgbToDword of the r, g, b stored in the same
\* object, at every brightness.
C21_DwordFollowsChannels ==
    /\ pixel.dword = rgbToDword(pixel.r, pixel.g, pixel.b)
    /\ output.dword = rgbToDword(output.r, output.g, output.b)
    /\ \A brightness \in BrightnessValues :
          LET q == applyBrightness(<<pixel>>, brightness)[1]
          IN  q.dword = rgbToDword(q.r, q.g, q.b)

C21_Witness ==
    /\ lastOp = "applyBrightness"
    /\ lastArg[1] \notin {0, FullBrightness}
    /\ output.dword # pixel.dword
    /\ output.g > MaxChannel
    /\ output.dword = rgbToDword(output.r, output.g, output.b)

\* C22: applyBrightness with brightness 100 returns, for a list of pixels
\* with channels in 0..255, a list of the same length whose pixels have the
\* r, g, b, a and dword of the input pixels, in the same order.
C22_FullBrightnessIsIdentity ==
    /\ (lastOp = "applyBrightness" /\ lastArg = <<FullBrightness>>) => output = pixel
    /\ applyBrightness(<<pixel, BlankPixel, pixel>>, FullBrightness)
          = <<pixel, BlankPixel, pixel>>
    /\ lastOp = "convertToPixelArray" =>
          \A v \in 0..MaxChannel : roundScaled(v, FullBrightness) = v

C22_Witness ==
    /\ lastOp = "applyBrightness"
    /\ lastArg = <<FullBrightness>>
    /\ pixel.r = MaxChannel
    /\ pixel.g \notin {0, MaxChannel}
    /\ pixel.a = 0
    /\ output = pixel

CropOnlyModes == {"crop-top", "crop-bottom", "crop-center"}

\* the sample of the result at column x, row y
ResultSample(x, y) == rs.pixelData.pixels[y * rs.targetWidth + x + 1]

\* the source window C23 describes: its size, and its origin as the base
\* origin of the mode plus the offset, clamped into the source
OffsetWindow ==
    LET winW == Min(rs.targetWidth, rs.image.width)
        winH == Min(rs.targetHeight, rs.image.height)
        baseX == IF rs.mode = "crop-center" THEN (rs.image.width - winW) \div 2 ELSE 0
        baseY == CASE rs.mode = "crop-bottom" -> Max(0, rs.image.height - winH)
                   [] rs.mode = "crop-center" -> (rs.image.height - winH) \div 2
                   [] OTHER -> 0
    IN  [sx |-> Max(0, Min(baseX + rs.cropOffsetX, rs.image.width - winW)),
         sy |-> Max(0, Min(baseY + rs.cropOffsetY, rs.image.height - winH)),
         sWidth |-> winW, sHeight |-> winH]

\* C23: in the three crop modes the resampling reads the source window of
\* size (min(tw, sw0), min(th, sh0)) whose origin is the base origin of the
\* mode plus (offsetX, offsetY), clamped to 0 <= sx <= sw0 - sw and
\* 0 <= sy <= sh0 - sh: the result is that window drawn onto the target,
\* and the window is the crop region the preview shows.
C23_WindowFollowsOffset ==
    (lastOp = "reprocessFrames" /\ rs.mode \in CropOnlyModes) =>
        /\ OffsetWindow.sx \in 0..(rs.image.width - OffsetWindow.sWidth)
        /\ OffsetWindow.sy \in 0..(rs.image.height - OffsetWindow.sHeight)
        /\ rs.pixelData.pixels =
              drawImage(newCanvas(rs.targetWidth, rs.targetHeight, rs.mode),
                        rs.targetWidth, rs.image, OffsetWindow,
                        [dx |-> 0, dy |-> 0, dWidth |-> rs.targetWidth,
                         dHeight |-> rs.targetHeight])
        /\ cropRegion(rs.image.width, rs.image.height, rs.targetWidth,
                      rs.targetHeight, rs.mode, rs.cropOffsetX, rs.cropOffsetY)
              = [cropX |-> OffsetWindow.sx, cropY |-> OffsetWindow.sy,
                 cropW |-> OffsetWindow.sWidth, cropH |-> OffsetWindow.sHeight]

\* the origin of the sub-rectangle a crop mode selects without offset
CropOrigin ==
    CASE rs.mode = "crop-bottom" ->
           [x |-> 0, y |-> rs.image.height - rs.targetHeight]
      [] rs.mode = "crop-center" ->
           [x |-> (rs.image.width - rs.targetWidth) \div 2,
            y |-> (rs.image.height - rs.targetHeight) \div 2]
      [] OTHER -> [x |-> 0, y |-> 0]

\* a crop without offset to a target no larger than the source
CropWithinSource ==
    /\ lastOp = "reprocessFrames"
    /\ rs.mode \in CropOnlyModes
    /\ rs.cropOffsetX = 0 /\ rs.cropOffsetY = 0
    /\ rs.targetWidth <= rs.image.width
    /\ rs.targetHeight <= rs.image.height

\* C24: a crop mode with offset (0, 0) and a target no larger than the
\* source gives a grid of exactly the target size whose sample at (x, y) is
\* the source sample at the origin of the mode (top-left, bottom-left, or
\* floor-centred) plus (x, y).
C24_CropCopiesSubRectangle ==
    CropWithinSource =>
        /\ rs.pixelData.width = rs.targetWidth
        /\ rs.pixelData.height = rs.targetHeight
        /\ Len(rs.pixelData.pixels) = rs.targetWidth * rs.targetHeight
        /\ \A x \in 0..(rs.targetWidth - 1), y \in 0..(rs.targetHeight - 1) :
              ResultSample(x, y) =
                  sourceSample(rs.image, CropOrigin.x + x, CropOrigin.y + y)

C24_Witness ==
    /\ CropWithinSource
    /\ rs.mode = "crop-bottom"
    /\ rs.image = [width |-> 3, height |-> 2]
    /\ rs.targetWidth = 2
    /\ rs.targetHeight = 1
    /\ rs.pixelData.pixels = <<sourceSample(rs.image, 0, 1), sourceSample(rs.image, 1, 1)>>

\* the rectangle C25 describes, in exact arithmetic
FitRect ==
    LET scale == fitScale(rs.image, rs.targetWidth, rs.targetHeight)
        dw == (rs.image.width * scale[1]) \div scale[2]
        dh == (rs.image.height * scale[1]) \div scale[2]
    IN  [dx |-> (rs.targetWidth - dw) \div 2, dy |-> (rs.targetHeight - dh) \div 2,
         dWidth |-> dw, dHeight |-> dh]

InFitRect(x, y) ==
    /\ x >= FitRect.dx /\ x < FitRect.dx + FitRect.dWidth
    /\ y >= FitRect.dy /\ y < FitRect.dy + FitRect.dHeight

\* C25: in 'fit' mode the rectangle of size (floor(sw0*s), floor(sh0*s)),
\* s = min(tw/sw0, th/sh0), at (floor((tw-dw)/2), floor((th-dh)/2)) lies
\* inside the target, every sample outside it is the black background, and
\* every sample is the background or a sample of the source.
C25_FitLeavesBlackOutside ==
    (lastOp = "reprocessFrames" /\ rs.mode = "fit") =>
        /\ FitRect.dx >= 0 /\ FitRect.dx + FitRect.dWidth <= rs.targetWidth
        /\ FitRect.dy >= 0 /\ FitRect.dy + FitRect.dHeight <= rs.targetHeight
        /\ Len(rs.pixelData.pixels) = rs.targetWidth * rs.targetHeight
        /\ \A x \in 0..(rs.targetWidth - 1), y \in 0..(rs.targetHeight - 1) :
              /\ ~InFitRect(x, y) => ResultSample(x, y) = BlackSample
              /\ ResultSample(x, y) \in
                    {BlackSample} \cup 1..(rs.image.width * rs.image.height)

C25_Witness ==
    /\ lastOp = "reprocessFrames"
    /\ rs.mode = "fit"
    /\ rs.image = [width |-> 11, height |-> 1]
    /\ rs.targetWidth = 15
    /\ rs.targetHeight = 2
    /\ ResultSample(13, 0) = sourceSample(rs.image, 10, 0)
    /\ ResultSample(14, 0) = BlackSample
    /\ ResultSample(0, 1) = BlackSample

\* the number of DWORD tokens among the first i items of a body that come
\* after the last line break before item i
RECURSIVE TokensOnLine(_, _)
TokensOnLine(body, i) ==
    IF i = 0 \/ body[i] = "\n" THEN 0
    ELSE TokensOnLine(body, i - 1) + (IF body[i] = "16#" THEN 1 ELSE 0)

\* the number of DWORD tokens among the first i items of a body
RECURSIVE TokensUpTo(_, _)
TokensUpTo(body, i) ==
    IF i = 0 THEN 0
    ELSE TokensUpTo(body, i - 1) + (IF body[i] = "16#" THEN 1 ELSE 0)

\* C26: in every array body exportTwinCAT emits, a line break follows
\* element j exactly when (j + 1) mod width = 0, every element but the last
\* is followed by a comma, and so every line holds exactly width tokens: a
\* line break ends the body, and width tokens stand before every line break.
C26_LinesHoldWidthTokens ==
    lastOp = "exportTwinCAT" =>
        \A k \in 1..Len(exported.bodies) :
            LET body == exported.bodies[k]
                length == exported.arrays[k]
            IN  /\ TokensUpTo(body, Len(body)) = length
                /\ \A i \in 1..Len(body) :
                      /\ body[i] = "16#" =>
                            LET j == TokensUpTo(body, i) - 1
                                rest == SubSeq(body, i + 1, Len(body))
                                afterComma == IF j < length - 1 THEN Tail(rest) ELSE rest
                            IN  /\ (j < length - 1) <=> (rest # <<>> /\ Head(rest) = ",")
                                /\ ((j + 1) % exported.width = 0) <=>
                                      (afterComma # <<>> /\ Head(afterComma) = "\n")
                      /\ body[i] = "\n" => TokensOnLine(body, i - 1) = exported.width
                /\ length > 0 => body[Len(body)] = "\n"

\* uppercase hexadecimal digits, and up to seven of them read back as a number
UpperHexDigits == toUpperCase(HexDigits)
RECURSIVE HexValue(_)
HexValue(digits) ==
    IF digits = <<>> THEN 0
    ELSE 16 * HexValue(SubSeq(digits, 1, Len(digits) - 1))
         + (CHOOSE d \in 0..15 : UpperHexDigits[d + 1] = digits[Len(digits)])

\* a token is the prefix followed by exactly 8 uppercase hexadecimal digits
\* that read back as the word: the first four as its upper half, the last
\* four as its lower half
TokenEncodes(token, prefix, word) ==
    /\ Len(token) = Len(prefix) + 8
    /\ SubSeq(token, 1, Len(prefix)) = prefix
    /\ \A i \in (Len(prefix) + 1)..Len(token) :
          \E d \in 1..16 : UpperHexDigits[d] = token[i]
    /\ HexValue(SubSeq(token, Len(prefix) + 1, Len(prefix) + 4)) = word \div 16^4
    /\ HexValue(SubSeq(token, Len(prefix) + 5, Len(prefix) + 8)) = word % 16^4

\* C27: for every packed word applyBrightness computed, the structured-text
\* token is 16# and exactly 8 uppercase hexadecimal digits, the JSON form is
\* 0x and the same digits, the digits parse to the packed word, and the
\* tokens come in the order of the pixels.
C27_TokenIsEightHexDigits ==
    lastOp = "applyBrightness" =>
        LET pixels == <<output, pixel>>
            st == twinCATTokens(pixels)
            js == jsonTokens(pixels)
        IN  /\ Len(st) = Len(pixels)
            /\ Len(js) = Len(pixels)
            /\ \A j \in 1..Len(pixels) :
                  /\ TokenEncodes(st[j], <<"1", "6", "#">>, pixels[j].dword)
                  /\ TokenEncodes(js[j], <<"0", "x">>, pixels[j].dword)

\* decimal digits read back as a number
RECURSIVE DecValue(_)
DecValue(digits) ==
    IF digits = <<>> THEN 0
    ELSE 10 * DecValue(SubSeq(digits, 1, Len(digits) - 1))
         + (CHOOSE d \in 0..9 : DecDigits[d + 1] = digits[Len(digits)])

\* an artifact declares n frame arrays and a pointer array ARRAY[0..n-1]
\* whose entry i is the identifier declared for frame i
PointersMatchDeclarations(artifact, n) ==
    /\ Len(artifact.declared) = n
    /\ artifact.pointers.bounds = <<0, n - 1>>
    /\ Len(artifact.pointers.entries) = n
    /\ \A i \in 1..n :
          /\ artifact.pointers.entries[i] = artifact.declared[i]
          /\ DecValue(artifact.declared[i].suffix) = i - 1
    /\ \A i, j \in 1..n : i # j => artifact.declared[i] # artifact.declared[j]

\* C28: for n >= 1 frames the structured text (exportTwinCAT) and the
\* container (exportTcGVL) declare n frame arrays and a pointer array with
\* bounds 0..n-1 and n entries, entry i naming the array of frame i, in
\* increasing order; the zero-padded index reads back as i for every index
\* up to MaxFrameIndex, with three digits below 1000 and four from there.
C28_PointerPerFrameInOrder ==
    (lastOp = "exportTwinCAT" /\ Len(sh.frames) >= 1) =>
        /\ PointersMatchDeclarations(exported, Len(sh.frames))
        /\ PointersMatchDeclarations(
              exportTcGVL(sh.frames, getOutputDimensions(sh, ui)), Len(sh.frames))
        /\ \A i \in 0..MaxFrameIndex :
              /\ DecValue(frameIndexSuffix(i)) = i
              /\ Len(frameIndexSuffix(i)) = (IF i < 1000 THEN 3 ELSE 4)

C28_Witness ==
    /\ lastOp = "exportTwinCAT"
    /\ Len(sh.frames) >= 2
    /\ exported.pointers.bounds = <<0, Len(sh.frames) - 1>>
    /\ exported.pointers.entries[2] = [prefix |-> "aFrame", suffix |-> <<"0", "0", "1">>]
    /\ exported.declared[2] = exported.pointers.entries[2]

\* a 36-character string with dashes exactly at the four UUID positions
\* (9, 14, 19 and 24 counted from 1), hexadecimal digits elsewhere, version
\* nibble 4 and variant nibble one of 8, 9, a, b
IsUuidV4(str) ==
    /\ Len(str) = 36
    /\ \A i \in 1..Len(str) :
          IF i \in {9, 14, 19, 24} THEN str[i] = "-"
          ELSE \E d \in 1..16 : HexDigits[d] = str[i]
    /\ str[15] = "4"
    /\ str[20] \in {"8", "9", "a", "b"}

\* C29 as stated: every value generateGUID returns is a 36-character string
\* of the UUID version 4 form.
C29_GuidIs36Characters ==
    lastOp = "generateGUID" => IsUuidV4(ex.guid)

\* C29, amended: every value generateGUID returns is a 38-character string,
\* an opening brace, 36 characters of the UUID version 4 form (dashes at the
\* four UUID positions, hexadecimal digits elsewhere, version nibble 4,
\* variant nibble one of 8, 9, a, b) and a closing brace; and whatever the
\* random source gives, the callback writes a hexadecimal digit for 'x' and
\* one of 8, 9, a, b for 'y'.
C29_GuidIsBracedUuidV4 ==
    /\ lastOp = "generateGUID" =>
          /\ Len(ex.guid) = 38
          /\ ex.guid[1] = "{"
          /\ ex.guid[38] = "}"
          /\ IsUuidV4(SubSeq(ex.guid, 2, 37))
    /\ \A r \in 0..(RandomRange - 1) :
          /\ \E d \in 1..16 : HexDigits[d] = replaceChar("x", r)
          /\ replaceChar("y", r) \in {"8", "9", "a", "b"}

C29_Witness ==
    /\ lastOp = "generateGUID"
    /\ ex.guid[2] = "f"
    /\ ex.guid[3] = "0"
    /\ ex.guid[21] = "a"
    /\ ex.guid[16] = "4"

\* C30: calculateMemoryUsage returns bytesPerFrame = width * height * 4 and
\* totalBytes = bytesPerFrame * frameCount; generateMemoryReport holds the
\* warning exactly when totalBytes > 10 * 1024 * 1024, and returns a report
\* with the usage lines in both cases.
C30_WarningAboveTenMiB ==
    lastOp = "generateMemoryReport" =>
        /\ ex.report.usage.bytesPerFrame = ex.width * ex.height * 4
        /\ ex.report.usage.totalBytes = ex.report.usage.bytesPerFrame * ex.nFrames
        /\ (\E i \in 1..Len(ex.report.lines) : ex.report.lines[i] = "WARNING")
              <=> (ex.width * ex.height * 4 * ex.nFrames > 10 * 1024 * 1024)
        /\ Len(ex.report.lines) >= 8
        /\ SubSeq(ex.report.lines, 4, 7) =
              <<"pixelsPerFrame", "bytesPerFrame", "totalFrames", "totalMemory">>

\* a total of exactly 10 MiB: no warning
C30_Witness ==
    /\ lastOp = "generateMemoryReport"
    /\ ex.report.usage.totalBytes = 10 * 1024 * 1024
    /\ Len(ex.report.lines) = 8
    /\ \A i \in 1..Len(ex.report.lines) : ex.report.lines[i] # "WARNING"

\* the last two exports were calls of the same operation with equal frames
\* and equal options
SameCallTwice ==
    /\ em.previous.kind # "none"
    /\ em.previous.kind = em.last.kind
    /\ em.previous.frames = em.last.frames
    /\ em.previous.options = em.last.options

\* C31 as stated: two calls of an export with equal frames and equal options
\* return identical text.
C31_EqualInputsEqualText ==
    SameCallTwice => em.previous.text = em.last.text

\* C31, amended: two calls of an export with equal frames and equal options
\* return texts of the same length that differ at most in the line of the
\* generation stamp (the date of exportTwinCAT, the GUID of exportTcGVL, the
\* time stamp of exportJSON); two calls of exportTwinCAT on the same day
\* return identical text.
C31_EqualInputsEqualTextButStamp ==
    SameCallTwice =>
        /\ Len(em.previous.text) = Len(em.last.text)
        /\ \A i \in 1..Len(em.last.text) :
              em.previous.text[i] # em.last.text[i] =>
                  /\ em.last.text[i][1] \in {"Generated", "GVL Id", "generated"}
                  /\ em.previous.text[i][1] = em.last.text[i][1]
                  /\ \A j \in 1..Len(em.last.text) :
                        em.previous.text[j] # em.last.text[j] => j = i
        /\ (em.last.kind = "exportTwinCAT" /\ em.previous.clock.day = em.last.clock.day)
              => em.previous.text = em.last.text

C31_Witness ==
    /\ SameCallTwice
    /\ em.last.kind = "exportTwinCAT"
    /\ Len(em.last.frames) = 2
    /\ em.previous.clock.day = em.last.clock.day
    /\ em.previous.clock.ms # em.last.clock.ms
    /\ em.previous.text = em.last.text

\* C32: whatever exports have run, at whatever brightness, the pixelData of
\* every stored frame is the one that was ingested, and the tokens and
\* channel values of the last export are those of the ingested pixels
\* scaled once by its brightness.
C32_ExportsLeaveFramesAlone ==
    /\ em.frames = em.ingested
    /\ lastOp \in ExportKinds =>
          /\ Len(em.last.text) >= Len(em.ingested) + 2
          /\ \A k \in 1..Len(em.ingested) :
                LET once == applyBrightness(em.ingested[k].pixelData.pixels,
                                            em.last.options.brightness)
                IN  IF lastOp = "exportJSON"
                    THEN /\ em.last.text[k + 2][4] = jsonTokens(once)
                         /\ em.last.text[k + 2][5] =
                               [j \in 1..Len(once) |-> <<once[j].r, once[j].g, once[j].b>>]
                    ELSE em.last.text[k + 5][4] = twinCATTokens(once)

C32_Witness ==
    /\ lastOp \in ExportKinds
    /\ em.previous.kind # "none"
    /\ em.previous.frames = em.last.frames
    /\ em.previous.options.brightness = MaxBrightness
    /\ em.last.options.brightness = FullBrightness \div 2
    /\ Len(em.ingested) = 2
    /\ em.frames = em.ingested
    /\ em.last.text[Len(em.last.text) - 1][4] # twinCATTokens(em.ingested[2].pixelData.pixels)

\* C33: when the later of two or more loadFrames calls has finished after
\* the earlier ones, the handler's sequence holds the frames of the later
\* batch only, frame k at position k.
C33_LaterBatchOnly ==
    (/\ lastOp = "loadFrames:done"
     /\ started >= 2
     /\ lastArg[1] = started
     /\ loads = {}) =>
        \A k \in 1..Len(sh.frames) :
            /\ sh.frames[k].batch = started
            /\ sh.frames[k].index = k - 1

\* C34: when a loadFrames call has completed, with or without an error,
\* and no other call is under way, the sequence the controller holds is the
\* sequence of the handler.
C34_ControllerHoldsHandlerFrames ==
    (/\ lastOp \in {"loadFrames:done", "loadFrames:mismatch", "loadFrames:error"}
     /\ loads = {}) =>
        fm.frames = sh.frames

\* C35: with an empty sequence and currentFrame 0, nextFrame() and
\* previousFrame() leave currentFrame at 0 and emit no frameChange.
C35_EmptySequenceNavigationIsNoOp ==
    [][(/\ Len(fm.frames) = 0
        /\ fm.currentFrame = 0
        /\ lastOp' \in {"nextFrame", "previousFrame"}) =>
            (/\ fm'.currentFrame = 0
             /\ emitted'.frameChange = <<>>)]_vars

\* C36: when stop() returns after a listener called play() during its
\* playStateChange(false) notification, at most one timer is active, it is
\* the one recorded in animationTimer, playing is true exactly when a timer
\* is active, and a stop() called next leaves no timer running.
C36_ReentrantPlayKeepsOneTimer ==
    lastOp = "stop:listener plays" =>
        /\ Cardinality(timers) <= 1
        /\ \A t \in timers : t.id = fm.animationTimer
        /\ fm.playing <=> timers # {}
        /\ stop(Ctx).timers = {}

\* C37: the playStateChange values an operation or a tick emits alternate,
\* the first is the opposite of the play state before it and the last is the
\* play state after it, and the play state changes only with a notification;
\* so over a whole run the values go true, false, true, ... And the value
\* play() or stop() emits is the play state at that moment.
C37_PlayStateChangesAlternate ==
    [][LET d == emitted'.playStateChange
       IN  /\ d = <<>> => fm'.playing = fm.playing
           /\ d # <<>> =>
                 /\ d[1] = ~fm.playing
                 /\ \A i \in 1..(Len(d) - 1) : d[i + 1] = ~d[i]
                 /\ d[Len(d)] = fm'.playing
           /\ play(Ctx).emitted.playStateChange \in {<<>>, <<play(Ctx).fm.playing>>}
           /\ stop(Ctx).emitted.playStateChange \in {<<>>, <<stop(Ctx).fm.playing>>}]_vars

\* setFPS during playback: false, then true
C37_Witness ==
    /\ lastOp = "setFPS"
    /\ emitted.playStateChange = <<FALSE, TRUE>>
    /\ fm.playing

\* C38: whenever the current tab is not the sequence tab, the controller
\* is not playing and no timer of it is active, whatever tabs were clicked,
\* keys pressed, and loads started, completed or failed before.
C38_NoPlaybackOffSequenceTab ==
    currentTab # "sequence" => (~fm.playing /\ timers = {})

\* a tab click stopped a playback while a load was still under way
C38_Witness ==
    /\ lastOp = "switchTab"
    /\ currentTab = "single"
    /\ emitted.playStateChange = <<FALSE>>
    /\ loads # {}
    /\ Len(fm.frames) >= 1

\* a pingpong playback of two or more frames started at index 0 with
\* direction +1, with no operation since
BounceRun ==
    run.clean /\ run.mode = "pingpong" /\ run.n >= 2 /\ run.start = 0 /\ run.dir = 1

\* the index k ticks into a bounce over n frames: up to n-1 and back down
BounceIndex(n, k) ==
    LET m == k % (2 * (n - 1)) IN IF m <= n - 1 THEN m ELSE 2 * (n - 1) - m

\* the direction k ticks into it: -1 from the last frame down to index 1
BounceDirection(n, k) == IF k % (2 * (n - 1)) >= n - 1 THEN -1 ELSE 1

\* every tick of the run moved the index by one along the bounce, of period
\* 2*(n-1); the direction turned at 0 and n-1; the controller still plays
BounceRunIsRegular ==
    BounceRun =>
        /\ \A k \in 1..Len(run.trail) : run.trail[k] = BounceIndex(run.n, k)
        /\ \A k \in 1..Len(run.trail) :
              LET before == IF k = 1 THEN run.start ELSE run.trail[k - 1]
              IN  run.trail[k] - before \in {1, -1}
        /\ \A k \in 1..Len(run.trail) :
              k > 2 * (run.n - 1) => run.trail[k] = run.trail[k - 2 * (run.n - 1)]
        /\ fm.currentFrame = BounceIndex(run.n, Len(run.trail))
        /\ fm.direction = BounceDirection(run.n, Len(run.trail))
        /\ fm.playing
        /\ Cardinality(timers) = 1

\* the index is on an end frame and the direction points out of the sequence
FacesOut(f) ==
    \/ f.currentFrame = Len(f.frames) - 1 /\ f.direction = 1
    \/ f.currentFrame = 0 /\ f.direction = -1

\* this step is a tick under pingpong with two or more frames
BounceTick == lastOp' = "tick" /\ fm.loopMode = "pingpong" /\ Len(fm.frames) >= 2

\* C39 as stated: a pingpong playback of N >= 2 frames started at index 0
\* with direction +1 and left alone moves the index by exactly 1 per tick,
\* turns exactly at 0 and N-1, has period 2*(N-1) and never stops; and a tick
\* repeats an index only after a goToFrame put the index on an end frame
\* with the direction pointing out of the sequence.
C39_OnlyGoToFrameRepeats ==
    /\ []BounceRunIsRegular
    /\ [][(BounceTick /\ fm'.currentFrame = fm.currentFrame) =>
            (placed.index = "goToFrame" /\ FacesOut(fm))]_vars

\* C39 amended: the same playback is regular as stated; and a pingpong tick
\* repeats an index exactly when it starts on an end frame with the direction
\* pointing out of the sequence, which comes about by a goToFrame to that
\* frame, by setFrames (index 0) while a playback has left the direction at
\* -1, or by setLoopMode (direction +1) while ticks have left the index on
\* the last frame.
C39_RepeatsWhenFacingOut ==
    /\ []BounceRunIsRegular
    /\ [][BounceTick =>
            /\ (fm'.currentFrame = fm.currentFrame) <=> FacesOut(fm)
            /\ FacesOut(fm) =>
                  \/ placed.index = "goToFrame"
                  \/ /\ placed.index = "setFrames"
                     /\ placed.direction = "tick"
                     /\ fm.currentFrame = 0
                  \/ /\ placed.index = "tick"
                     /\ placed.direction = "setLoopMode"
                     /\ fm.currentFrame = Len(fm.frames) - 1]_vars

\* a playback that started on index 0 with direction -1 after setFrames or
\* a tick, showed index 0 again on its first tick, and went on to 1
C39_Witness ==
    /\ run.clean
    /\ run.mode = "pingpong"
    /\ run.n >= 2
    /\ run.start = 0
    /\ run.dir = -1
    /\ run.trail = <<0, 1>>
    /\ lastOp = "tick"

\* a 'once' playback under way, with no operation since its play()
OnceRun == run.clean /\ run.mode = "once" /\ fm.playing

\* it has stopped by itself on the last frame
OnceEnded ==
    /\ run.clean
    /\ run.mode = "once"
    /\ ~fm.playing
    /\ timers = {}
    /\ fm.currentFrame = run.n - 1

\* an operation has just been called on the playback that was under way
Interrupted == lastOp # "tick" /\ ~run.clean

\* C40: a 'once' playback started at any index, with ticks firing fairly,
\* eventually stops by itself on index count-1 unless an operation is called
\* first; no tick of it lowers the index; and after it has stopped no tick
\* fires, so that index and play state stay as they are until an operation
\* is called.
C40_OnceStopsOnLastFrame ==
    /\ OnceRun ~> (OnceEnded \/ Interrupted)
    /\ [][(OnceRun /\ lastOp' = "tick") => fm'.currentFrame >= fm.currentFrame]_vars
    /\ [][OnceEnded =>
            /\ lastOp' # "tick"
            /\ (fm'.currentFrame # fm.currentFrame \/ fm'.playing # fm.playing)
                  => lastOp' \in {"play", "setFrames", "goToFrame", "nextFrame",
                                  "previousFrame"}]_vars

\* a playback of three frames started on index 1 has stopped on index 2
\* after two ticks
C40_Witness ==
    /\ OnceEnded
    /\ run.n = 3
    /\ run.start = 1
    /\ run.trail = <<2, 2>>
    /\ lastOp = "tick"

TypeOK ==
    /\ fm.playing \in BOOLEAN
    /\ fm.loopMode \in LoopModes
    /\ fm.direction \in {1, -1}
    /\ fm.currentFrame \in Nat \cup {NaN}
    /\ fm.animationTimer \in 0..MaxTimerId
    /\ aliased => fm.frames = sh.frames
    /\ {pixel.r, pixel.g, pixel.b, pixel.a} \subseteq 0..MaxChannel
    /\ {output.r, output.g, output.b} \subseteq 0..(2^15)
====
